---- MODULE Spec2Model ----
(***************************************************************************)
(* gitfolio: the GitHub data client of js/github-api.js (cache, rate       *)
(* limiter, paginated repository fetch, enrichment) as a state machine.    *)
(* One fetchUserData invocation runs at a time; every await of the code    *)
(* (a network response, a sleep) is a separate step, and everything the    *)
(* code does between two awaits is one atomic step.                        *)
(***************************************************************************)
EXTENDS Integers, Sequences, FiniteSets, TLC

VARIABLES
    now,                 \* Date.now(), in milliseconds
    storage,             \* localStorage[CACHE_KEY]: the persisted text
    storageMode,         \* "ok" | "full" (setItem throws) | "disabled" (every access throws)
    rateLimitRemaining,  \* github-api.js:11
    rateLimitReset,      \* github-api.js:12 (Null, or an instant in ms)
    remoteCount,         \* the number of public repositories the remote holds per user
    pc,                  \* where the fetchUserData invocation stands
    username,            \* its argument
    userInfo,            \* its local userInfo ("" before fetchUser answered)
    repos,               \* its local repos list
    page,                \* fetchRepos' page
    idx,                 \* the enrichment loop's i, 1-based (i = idx - 1)
    pending,             \* the request awaiting its response
    calls,               \* this invocation's fetchWithRateLimit calls, in order
    result,              \* what the invocation returned or threw
    lastResponse,        \* the last response received and the outcome it was mapped to
    prev,                \* the previous invocation, as the caller saw it
    clearThrew,          \* the last clearCache() call threw
    wrote,               \* the last setCachedData: whether it stored its record, and when
    lastCall,            \* the last fetchWithRateLimit call and what its pre-check saw
    startedAt,           \* when the invocation was called
    atCall,              \* the cache text and the limiter state it was called in
    faultsLeft,          \* remaining eventful responses
    ticksLeft,           \* remaining clock steps
    callsLeft,           \* remaining fetchUserData invocations
    typed,               \* the usernames the caller may ask for
    \* js/template-engine.js
    currentTemplate,     \* template-engine.js:6
    userData,            \* template-engine.js:7 (NoUserData for null)
    settings,            \* template-engine.js:8
    rendered,            \* what the last render() produced
    \* js/app.js and the page
    appPage,             \* the page shown: "landing" | "loading" | "editor"
    generates,           \* the handleGenerate invocations that have not finished
    currentPreviewUrl,   \* app.js:52 (Null, or a handle)
    handles,             \* per handle created by getPreviewDataUrl: times revoked
    frames,              \* the compare frames: src, load pending, the url of onload
    timers,              \* the setTimeout callbacks of handleCompare not yet run
    settingsText,        \* localStorage['gitfolio_settings']
    booted,              \* init() has run
    \* extractFirstParagraph by itself
    markdown,            \* the decoded readme it was last given, as its lines
    excerpt,             \* what it returned for it
    \* fetchUserData invocations that overlap
    invocations,         \* those in flight, each with its locals
    \* what the specification observes
    logHeaders           \* lastResponse keeps the headers and the limiter state met

apiVars == <<now, storage, storageMode, rateLimitRemaining, rateLimitReset, remoteCount,
             pc, username, userInfo, repos, page, idx, pending, calls, result,
             lastResponse, prev, clearThrew, wrote, lastCall, startedAt, atCall,
             faultsLeft, ticksLeft, callsLeft, typed>>
teVars == <<currentTemplate, userData, settings, rendered>>
appVars == <<appPage, generates, currentPreviewUrl, handles, frames, timers,
             settingsText, booted>>
readmeVars == <<markdown, excerpt>>
raceVars == <<invocations>>
logVars == <<logHeaders>>
vars == <<apiVars, teVars, appVars, readmeVars, raceVars, logVars>>

-----------------------------------------------------------------------------
(* Program constants *)

CACHE_DURATION == 1000 * 60 * 30
perPage == 100
TopRepos == 20
ReadmeRepos == 6
InitialQuota == 60

(* Bounds of the model *)

MaxFaults == 1
MaxPages == 1
MaxTicks == 2

Null == -1
NoHeader == -1

Users == {"alice", "bob"}

Min(a, b) == IF a < b THEN a ELSE b
Max(a, b) == IF a > b THEN a ELSE b
Last(s) == s[Len(s)]

-----------------------------------------------------------------------------
(* Values *)

\* an enrichment field is a pair <<tag, value>>: the property is not there
\* ("undefined"), null, a mapping (0: the empty mapping {}) or a string
\* (0: the empty string).
Undef == <<"undefined", 0>>
NullValue == <<"null", 0>>
EmptyMap == <<"map", 0>>
EmptyString == <<"str", 0>>

\* what the remote holds: repositories 1..remoteCount of each user, most
\* recently updated first, each with a language mapping and a readme. A
\* repository is known by a number that tells its owner and its rank.
RemoteRepo(u, k) == (IF u = "alice" THEN 1000 ELSE 2000) + k

RemotePageLen(n, p) == Max(0, Min(perPage, n - (p - 1) * perPage))

\* GET /users/u/repos?per_page=100&page=p&sort=updated
RemotePage(u, n, p) ==
    [j \in 1..RemotePageLen(n, p) |-> RemoteRepo(u, (p - 1) * perPage + j)]

\* a list of repository objects: the repositories in order, and the enrichment
\* fields of those that have them. The loop sets the fields in list order, so
\* the fields set are those of a prefix of the list.
RepoList(names) == [names |-> names, languageData |-> <<>>, readmeExcerpt |-> <<>>]
NoRepos == RepoList(<<>>)
Len_(rs) == Len(rs.names)
LanguageDataOf(rs, i) == IF i <= Len(rs.languageData) THEN rs.languageData[i] ELSE Undef
ReadmeExcerptOf(rs, i) == IF i <= Len(rs.readmeExcerpt) THEN rs.readmeExcerpt[i] ELSE Undef

RemoteUser(u) == <<"user", u>>
NoUserInfo == <<"user", "">>

\* a UserData / cache record; has: the properties the object has.
AllFields == {"username", "repos", "userInfo", "lastFetch"}

UserData(u, rs, ui, t) ==
    [has |-> AllFields, username |-> u, repos |-> rs, userInfo |-> ui, lastFetch |-> t]

NoData == [has |-> {}, username |-> "", repos |-> NoRepos, userInfo |-> NoUserInfo, lastFetch |-> 0]

-----------------------------------------------------------------------------
(* localStorage and JSON *)

NoItem == [kind |-> "none", data |-> NoData]
Garbage == [kind |-> "garbage", data |-> NoData]
JsonNull == [kind |-> "null", data |-> NoData]

\* JSON.stringify of a record: an object text. Every value the program puts in a
\* record (strings, numbers, null, objects, arrays) survives the round trip, and
\* a property that is not there stays not there.
Stringify(d) == [kind |-> "object", data |-> d]

\* JSON.parse: throws on text that is no JSON.
ParseThrows(text) == text.kind = "garbage"
Parse(text) == text.data

\* data.lastFetch as a number: NaN when the property is not there.
IsNaN(d) == "lastFetch" \notin d.has

\* age > CACHE_DURATION, with every comparison against NaN false.
ExpiredMutant(d, t) == ~IsNaN(d) /\ t - d.lastFetch >= CACHE_DURATION
Expired(d, t) == ~IsNaN(d) /\ t - d.lastFetch > CACHE_DURATION

\* getCachedData(username) at time t: the record, or NoData for null.
GetCachedData(u, text, mode, t) ==
    IF mode = "disabled" THEN NoData                \* getItem throws: caught
    ELSE IF text.kind = "none" THEN NoData          \* !cached
    ELSE IF ParseThrows(text) THEN NoData           \* caught
    ELSE IF text.kind = "null" THEN NoData          \* null.username throws: caught
    ELSE IF "username" \notin Parse(text).has THEN NoData
    ELSE IF Parse(text).username # u THEN NoData
    ELSE IF Expired(Parse(text), t) THEN NoData
    ELSE Parse(text)

CacheHit(u, text, mode, t) == GetCachedData(u, text, mode, t) # NoData

\* setCachedData: the text stored afterwards (a throwing setItem is caught).
SetCachedDataMutant(u, rs, ui, text, mode, t) ==
    IF mode = "ok" THEN Stringify(UserData(u, RepoList(rs.names), ui, t)) ELSE text
SetCachedData(u, rs, ui, text, mode, t) ==
    IF mode = "ok" THEN Stringify(UserData(u, rs, ui, t)) ELSE text

\* clearCache: localStorage.removeItem, with nothing catching what it throws.
ClearCacheThrows(mode) == mode = "disabled"

-----------------------------------------------------------------------------
(* Rate limiter and HTTP client *)

Truthy(n) == n # Null /\ n # 0

\* the pre-check of fetchWithRateLimit
RefusesMutant(rem, rst, t) == rem <= 0 /\ Truthy(rst) /\ t <= rst
Refuses(rem, rst, t) == rem <= 0 /\ Truthy(rst) /\ t < rst

\* updateRateLimit: a header that is there replaces the stored value
UpdateRemainingMutant(rem, resp) ==
    IF resp.remaining # NoHeader /\ resp.remaining # 0 THEN resp.remaining ELSE rem
UpdateRemaining(rem, resp) ==
    IF resp.remaining # NoHeader THEN resp.remaining ELSE rem
UpdateReset(rst, resp) ==
    IF resp.reset # NoHeader THEN resp.reset * 1000 ELSE rst

\* response.ok
Ok(status) == status >= 200 /\ status <= 299

\* the limiter state once fetchWithRateLimit has a response: updateRateLimit
\* runs on line 75, before any status is looked at; a fetch() that rejects
\* (status 0) has no response and leaves line 73 by the exception
RemainingAfterMutant(rem, resp) ==
    IF resp.status = 0 \/ ~Ok(resp.status) THEN rem ELSE UpdateRemaining(rem, resp)
RemainingAfter(rem, resp) ==
    IF resp.status = 0 THEN rem ELSE UpdateRemaining(rem, resp)
ResetAfter(rst, resp) ==
    IF resp.status = 0 THEN rst ELSE UpdateReset(rst, resp)

\* what fetchWithRateLimit makes of a response (status 0: fetch() itself rejected)
OutcomeMutant(status) ==
    IF status = 0 THEN [kind |-> "NetworkError", status |-> 0]
    ELSE IF status = 404 THEN [kind |-> "User not found", status |-> 404]
    ELSE IF ~Ok(status) THEN [kind |-> "GitHub API error", status |-> status]
    ELSE [kind |-> "ok", status |-> status]
Outcome(status) ==
    IF status = 0 THEN [kind |-> "NetworkError", status |-> 0]
    ELSE IF status = 404 THEN [kind |-> "User not found", status |-> 404]
    ELSE IF status = 403 THEN [kind |-> "Rate limit exceeded", status |-> 403]
    ELSE IF ~Ok(status) THEN [kind |-> "GitHub API error", status |-> status]
    ELSE [kind |-> "ok", status |-> status]

RefusedError == [kind |-> "Rate limit exceeded", status |-> 0]
NoReposError == [kind |-> "No public repositories found", status |-> 0]
NoError == [kind |-> "none", status |-> 0]

Statuses == {0, 200, 204, 403, 404, 500}
\* X-RateLimit-Reset, in epoch seconds
ResetSeconds == CACHE_DURATION \div 1000

Responses ==
    [status : Statuses, remaining : {NoHeader, 0}, reset : {NoHeader, ResetSeconds},
     body : {"ok", "empty", "badbase64"}]

Plain(resp) ==
    resp.status = 200 /\ resp.remaining = NoHeader /\ resp.reset = NoHeader /\ resp.body = "ok"

\* requests
NoReq == [kind |-> "none", user |-> "", page |-> 0, repo |-> 0]
UserReq(u) == [kind |-> "user", user |-> u, page |-> 0, repo |-> 0]
ReposReq(u, p) == [kind |-> "repos", user |-> u, page |-> p, repo |-> 0]
LanguagesReq(u, k) == [kind |-> "languages", user |-> u, page |-> 0, repo |-> k]
ReadmeReq(u, k) == [kind |-> "readme", user |-> u, page |-> 0, repo |-> k]

\* one fetchWithRateLimit call in the log: the request and whether it was
\* dispatched (FALSE: the pre-check refused it).
CallEntry(req, rem, rst, t) == [req |-> req, sent |-> ~Refuses(rem, rst, t)]

-----------------------------------------------------------------------------
(* The invocation's steps between two awaits *)

NoResult == [status |-> "none", error |-> NoError, data |-> NoData]
Returned(d) == [status |-> "ok", error |-> NoError, data |-> d]
Thrown(e) == [status |-> "error", error |-> e, data |-> NoData]

\* where a run of synchronous code leaves the invocation
Cfg(p, rs, rq, cs, e) == [pc |-> p, repos |-> rs, pending |-> rq, calls |-> cs, err |-> e]

SetLanguageData(rs, i, v) ==
    IF i <= Len(rs.languageData) THEN [rs EXCEPT !.languageData[i] = v]
    ELSE [rs EXCEPT !.languageData = Append(@, v)]
SetReadmeExcerpt(rs, i, v) ==
    IF i <= Len(rs.readmeExcerpt) THEN [rs EXCEPT !.readmeExcerpt[i] = v]
    ELSE [rs EXCEPT !.readmeExcerpt = Append(@, v)]

\* repos.push(...pageRepos)
Push(rs, pr) == [rs EXCEPT !.names = @ \o pr]

\* topRepos = repos.slice(0, 20)
TopLenMutant(rs) == Min(Len_(rs), TopRepos + 1)
TopLen(rs) == Min(Len_(rs), TopRepos)

\* fetchUser / a page of fetchRepos: a refused call is thrown to the caller
RequestOrFailMutant(req, rs, cs, rem, rst, t) ==
    LET e == CallEntry(req, rem, rst, t)
    IN  IF e.sent THEN Cfg("await", rs, req, Append(cs, e), NoError)
        ELSE Cfg("await", rs, req, Append(Append(cs, e), [e EXCEPT !.sent = TRUE]), NoError)
RequestOrFail(req, rs, cs, rem, rst, t) ==
    LET e == CallEntry(req, rem, rst, t)
    IN  IF e.sent THEN Cfg("await", rs, req, Append(cs, e), NoError)
        ELSE Cfg("failed", rs, NoReq, Append(cs, e), RefusedError)

\* if (i < 6) repo.readmeExcerpt = await fetchReadme(...); then sleep(50)
FetchReadmeStepMutant(u, rs, i, cs, rem, rst, t) ==
    IF i <= TopRepos
    THEN LET e == CallEntry(ReadmeReq(u, rs.names[i]), rem, rst, t)
         IN  IF e.sent THEN Cfg("await", rs, e.req, Append(cs, e), NoError)
             ELSE Cfg("sleepEnrich", SetReadmeExcerpt(rs, i, NullValue), NoReq,
                      Append(cs, e), NoError)
    ELSE Cfg("sleepEnrich", rs, NoReq, cs, NoError)
FetchReadmeStep(u, rs, i, cs, rem, rst, t) ==
    IF i <= ReadmeRepos
    THEN LET e == CallEntry(ReadmeReq(u, rs.names[i]), rem, rst, t)
         IN  IF e.sent THEN Cfg("await", rs, e.req, Append(cs, e), NoError)
             ELSE Cfg("sleepEnrich", SetReadmeExcerpt(rs, i, NullValue), NoReq,
                      Append(cs, e), NoError)
    ELSE Cfg("sleepEnrich", rs, NoReq, cs, NoError)

\* repo.languageData = await fetchLanguages(...), and what follows a refusal
FetchLanguagesStepMutant(u, rs, i, cs, rem, rst, t) ==
    LET e == CallEntry(LanguagesReq(u, rs.names[i]), rem, rst, t)
        r == CallEntry(ReadmeReq(u, rs.names[i]), rem, rst, t)
    IN  IF e.sent THEN Cfg("await", rs, e.req, Append(Append(cs, e), r), NoError)
        ELSE FetchReadmeStep(u, SetLanguageData(rs, i, EmptyMap), i, Append(cs, e),
                             rem, rst, t)
FetchLanguagesStep(u, rs, i, cs, rem, rst, t) ==
    LET e == CallEntry(LanguagesReq(u, rs.names[i]), rem, rst, t)
    IN  IF e.sent THEN Cfg("await", rs, e.req, Append(cs, e), NoError)
        ELSE FetchReadmeStep(u, SetLanguageData(rs, i, EmptyMap), i, Append(cs, e),
                             rem, rst, t)

\* after fetchRepos returned rs
AfterRepos(u, rs, cs, rem, rst, t) ==
    IF Len_(rs) = 0 THEN Cfg("failed", rs, NoReq, cs, NoReposError)
    ELSE FetchLanguagesStep(u, rs, 1, cs, rem, rst, t)

\* a page of fetchRepos has arrived
PageStepMutant(u, rs, pr, cs, rem, rst, t) ==
    IF Len(pr) = 0 THEN AfterRepos(u, rs, cs, rem, rst, t)
    ELSE Cfg("sleepPage", Push(rs, pr), NoReq, cs, NoError)
PageStep(u, rs, pr, cs, rem, rst, t) ==
    IF Len(pr) = 0 THEN AfterRepos(u, rs, cs, rem, rst, t)
    ELSE IF Len(pr) < perPage THEN AfterRepos(u, Push(rs, pr), cs, rem, rst, t)
    ELSE Cfg("sleepPage", Push(rs, pr), NoReq, cs, NoError)

\* what fetchLanguages returns for a response
LanguagesValue(out, k) == IF out.kind = "ok" THEN <<"map", k>> ELSE EmptyMap

\* what fetchReadme returns for a response: atob of a bad content throws and is
\* caught; an empty readme gives the empty string.
ReadmeValueMutant(out, body, k) ==
    IF out.kind # "ok" THEN EmptyString
    ELSE IF body = "badbase64" THEN NullValue
    ELSE IF body = "empty" THEN EmptyString
    ELSE <<"str", k>>
ReadmeValue(out, body, k) ==
    IF out.kind # "ok" THEN NullValue
    ELSE IF body = "badbase64" THEN NullValue
    ELSE IF body = "empty" THEN EmptyString
    ELSE <<"str", k>>

\* page++ of fetchRepos
NextPageMutant(p) == p + 2
NextPage(p) == p + 1

\* the enrichment loop has no repository left (i < topRepos.length is false)
EnrichmentOverMutant(i, rs) == i >= 1
EnrichmentOver(i, rs) == i >= TopLen(rs)

\* the invocation moves to cfg; rem, rst, t: what the pre-checks of this run saw
Apply(cfg, rem, rst, t) ==
    /\ pc' = cfg.pc
    /\ repos' = cfg.repos
    /\ pending' = cfg.pending
    /\ calls' = cfg.calls
    /\ result' = IF cfg.pc = "failed" THEN Thrown(cfg.err) ELSE result
    /\ lastCall' = IF cfg.calls = calls \/ cfg.calls = <<>> THEN lastCall
                   ELSE [req |-> Last(cfg.calls).req, sent |-> Last(cfg.calls).sent,
                         rem |-> rem, rst |-> rst, at |-> t]

-----------------------------------------------------------------------------
(* Actions *)

NoWrite == [done |-> FALSE, user |-> "", at |-> 0]
NoPrev == [result |-> NoResult, username |-> "", calls |-> <<>>, at |-> 0,
           wrote |-> NoWrite, cleared |-> FALSE]
NoResponse == [status |-> -1, outcome |-> NoError, kind |-> "none", idx |-> 0,
               remaining |-> NoHeader, reset |-> NoHeader, rem0 |-> InitialQuota,
               rst0 |-> Null, count |-> 0]
NoAtCall == [storage |-> NoItem, rem |-> InitialQuota, rst |-> Null]
NoExcerpt == [done |-> FALSE, text |-> <<>>]
NoCall == [req |-> NoReq, sent |-> FALSE, rem |-> 0, rst |-> Null, at |-> 0]

\* fetchUserData(u) up to its first await
Call(u) ==
    /\ pc = "idle"
    /\ u \in typed
    /\ callsLeft > 0
    /\ callsLeft' = callsLeft - 1
    /\ username' = u
    /\ userInfo' = NoUserInfo
    /\ page' = 1
    /\ idx' = 1
    /\ startedAt' = now
    /\ atCall' = [storage |-> storage, rem |-> rateLimitRemaining,
                  rst |-> rateLimitReset]
    /\ IF CacheHit(u, storage, storageMode, now)
       THEN /\ pc' = "done"
            /\ result' = Returned(GetCachedData(u, storage, storageMode, now))
            /\ repos' = NoRepos
            /\ pending' = NoReq
            /\ calls' = <<>>
            /\ lastCall' = lastCall
       ELSE /\ Apply(RequestOrFail(UserReq(u), NoRepos, <<>>, rateLimitRemaining,
                                   rateLimitReset, now),
                     rateLimitRemaining, rateLimitReset, now)
    /\ UNCHANGED <<teVars, appVars, readmeVars, raceVars, logVars>>
    /\ UNCHANGED <<now, storage, storageMode, rateLimitRemaining, rateLimitReset,
                   remoteCount, lastResponse, prev, clearThrew, wrote, faultsLeft,
                   ticksLeft,
                   typed>>

\* the response to the pending request arrives (or fetch() rejects: status 0)
Respond(resp) ==
    /\ pc = "await"
    /\ Plain(resp) \/ faultsLeft > 0
    /\ resp.body # "ok" => (pending.kind = "readme" /\ Ok(resp.status))
    /\ resp.status = 0 => (resp.remaining = NoHeader /\ resp.reset = NoHeader)
    /\ faultsLeft' = IF Plain(resp) THEN faultsLeft ELSE faultsLeft - 1
    /\ LET rem == RemainingAfter(rateLimitRemaining, resp)
           rst == ResetAfter(rateLimitReset, resp)
           out == Outcome(resp.status)
       IN  /\ rateLimitRemaining' = rem
           /\ rateLimitReset' = rst
           /\ lastResponse' = [status |-> resp.status, outcome |-> out, kind |-> pending.kind,
                             idx |-> idx,
                             remaining |-> IF logHeaders THEN resp.remaining ELSE NoHeader,
                             reset |-> IF logHeaders THEN resp.reset ELSE NoHeader,
                             rem0 |-> IF logHeaders THEN rateLimitRemaining
                                      ELSE InitialQuota,
                             rst0 |-> IF logHeaders THEN rateLimitReset ELSE Null,
                             count |-> lastResponse.count + 1]
           /\ CASE pending.kind = "user" ->
                    IF out.kind = "ok"
                    THEN /\ userInfo' = RemoteUser(username)
                         /\ Apply(RequestOrFail(ReposReq(username, 1), NoRepos, calls,
                                                rem, rst, now), rem, rst, now)
                         /\ UNCHANGED <<page, idx>>
                    ELSE /\ Apply(Cfg("failed", repos, NoReq, calls, out), rem, rst, now)
                         /\ UNCHANGED <<userInfo, page, idx>>
                [] pending.kind = "repos" ->
                    IF out.kind = "ok"
                    THEN LET cfg == PageStep(username, repos,
                                             RemotePage(username, remoteCount, page),
                                             calls, rem, rst, now)
                         IN  /\ Apply(cfg, rem, rst, now)
                             /\ page' = IF cfg.pc = "sleepPage" THEN NextPage(page) ELSE page
                             /\ UNCHANGED <<userInfo, idx>>
                    ELSE /\ Apply(Cfg("failed", repos, NoReq, calls, out), rem, rst, now)
                         /\ UNCHANGED <<userInfo, page, idx>>
                [] pending.kind = "languages" ->
                    /\ Apply(FetchReadmeStep(username,
                                SetLanguageData(repos, idx, LanguagesValue(out, pending.repo)),
                                idx, calls, rem, rst, now), rem, rst, now)
                    /\ UNCHANGED <<userInfo, page, idx>>
                [] pending.kind = "readme" ->
                    /\ Apply(Cfg("sleepEnrich",
                                SetReadmeExcerpt(repos, idx,
                                    ReadmeValue(out, resp.body, pending.repo)),
                                NoReq, calls, NoError), rem, rst, now)
                    /\ UNCHANGED <<userInfo, page, idx>>
    /\ UNCHANGED <<teVars, appVars, readmeVars, raceVars, logVars>>
    /\ UNCHANGED <<now, storage, storageMode, remoteCount, username, prev, clearThrew,
                   wrote, startedAt, atCall, ticksLeft, callsLeft,
                   typed>>

\* sleep(100) of fetchRepos is over: the next page is requested
WakePage ==
    /\ pc = "sleepPage"
    /\ Apply(RequestOrFail(ReposReq(username, page), repos, calls, rateLimitRemaining,
                           rateLimitReset, now),
             rateLimitRemaining, rateLimitReset, now)
    /\ UNCHANGED <<teVars, appVars, readmeVars, raceVars, logVars>>
    /\ UNCHANGED <<now, storage, storageMode, rateLimitRemaining, rateLimitReset,
                   remoteCount, username, userInfo, page, idx, lastResponse, prev,
                   clearThrew, wrote, startedAt, atCall, faultsLeft, ticksLeft, callsLeft,
                   typed>>

\* sleep(50) of the enrichment loop is over and the loop goes on
WakeEnrich ==
    /\ pc = "sleepEnrich"
    /\ ~EnrichmentOver(idx, repos)
    /\ idx' = idx + 1
    /\ Apply(FetchLanguagesStep(username, repos, idx + 1, calls, rateLimitRemaining,
                                rateLimitReset, now),
             rateLimitRemaining, rateLimitReset, now)
    /\ UNCHANGED <<teVars, appVars, readmeVars, raceVars, logVars>>
    /\ UNCHANGED <<now, storage, storageMode, rateLimitRemaining, rateLimitReset,
                   remoteCount, username, userInfo, page, lastResponse, prev,
                   clearThrew, wrote, startedAt, atCall, faultsLeft, ticksLeft, callsLeft,
                   typed>>

\* the last sleep(50) is over: setCachedData, then the return. The two reads of
\* Date.now() (line 43, line 236) may see different milliseconds.
Finish ==
    /\ pc = "sleepEnrich"
    /\ EnrichmentOver(idx, repos)
    /\ \E d \in {0, 1} :
        /\ storage' = SetCachedData(username, repos, userInfo, storage, storageMode, now)
        /\ wrote' = [done |-> storageMode = "ok", user |-> username, at |-> now]
        /\ now' = now + d
        /\ result' = Returned(UserData(username, repos, userInfo, now + d))
    /\ pc' = "done"
    /\ UNCHANGED <<teVars, appVars, readmeVars, raceVars, logVars>>
    /\ UNCHANGED <<storageMode, rateLimitRemaining, rateLimitReset, remoteCount,
                   username, userInfo, repos, page, idx, pending, calls, lastResponse,
                   prev, clearThrew, lastCall, startedAt, atCall, faultsLeft, ticksLeft,
                   callsLeft,
                   typed>>

\* the caller has the result (or the error); the next invocation may start
Return ==
    /\ pc \in {"done", "failed"}
    /\ prev' = [result |-> result, username |-> username, calls |-> calls, at |-> now,
                wrote |-> wrote, cleared |-> FALSE]
    /\ pc' = "idle"
    /\ username' = ""
    /\ userInfo' = NoUserInfo
    /\ repos' = NoRepos
    /\ page' = 1
    /\ idx' = 1
    /\ calls' = <<>>
    /\ result' = NoResult
    /\ lastResponse' = NoResponse
    /\ lastCall' = NoCall
    /\ atCall' = NoAtCall
    /\ UNCHANGED <<teVars, appVars, readmeVars, raceVars, logVars>>
    /\ UNCHANGED <<now, storage, storageMode, rateLimitRemaining, rateLimitReset,
                   remoteCount, pending, clearThrew, wrote, startedAt, faultsLeft,
                   ticksLeft, callsLeft,
                   typed>>

\* GitHubAPI.clearCache()
ClearCache ==
    /\ pc = "idle"
    /\ clearThrew' = ClearCacheThrows(storageMode)
    /\ storage' = IF ClearCacheThrows(storageMode) THEN storage ELSE NoItem
    /\ prev' = IF ClearCacheThrows(storageMode) THEN prev
               ELSE [prev EXCEPT !.cleared = TRUE]
    /\ clearThrew' # clearThrew \/ storage' # storage \/ prev' # prev
    /\ UNCHANGED <<teVars, appVars, readmeVars, raceVars, logVars>>
    /\ UNCHANGED <<now, storageMode, rateLimitRemaining, rateLimitReset, remoteCount,
                   pc, username, userInfo, repos, page, idx, pending, calls, result,
                   lastResponse, wrote, lastCall, startedAt, atCall, faultsLeft, ticksLeft,
                   callsLeft,
                   typed>>

\* the clock advances while the program waits
TickSteps == {1, CACHE_DURATION - 1, CACHE_DURATION}

Tick(d) ==
    /\ pc \in {"idle", "await", "sleepPage", "sleepEnrich"}
    /\ ticksLeft > 0
    /\ ticksLeft' = ticksLeft - 1
    /\ now' = now + d
    /\ UNCHANGED <<teVars, appVars, readmeVars, raceVars, logVars>>
    /\ UNCHANGED <<storage, storageMode, rateLimitRemaining, rateLimitReset, remoteCount,
                   pc, username, userInfo, repos, page, idx, pending, calls, result,
                   lastResponse, prev, clearThrew, wrote, lastCall, startedAt, atCall,
                   faultsLeft, callsLeft,
                   typed>>

-----------------------------------------------------------------------------
(* js/github-api.js: extractFirstParagraph *)

\* A readme is the sequence of its lines (markdown.split('\n')), a line a
\* sequence of characters; the grave accent (U+0060) is written BackTick.
BackTick == "grave"
WhiteSpace == {" ", "\t"}

RECURSIVE TrimStart(_)
TrimStart(s) ==
    IF s # <<>> /\ Head(s) \in WhiteSpace THEN TrimStart(Tail(s)) ELSE s
RECURSIVE TrimEnd(_)
TrimEnd(s) ==
    IF s # <<>> /\ s[Len(s)] \in WhiteSpace THEN TrimEnd(SubSeq(s, 1, Len(s) - 1)) ELSE s
\* line.trim()
Trim(s) == TrimEnd(TrimStart(s))

\* s.startsWith(p), and p found in s at position i
StartsAt(s, i, p) == i + Len(p) - 1 <= Len(s) /\ SubSeq(s, i, i + Len(p) - 1) = p
StartsWith(s, p) == StartsAt(s, 1, p)

\* the lines the loop passes over with continue: headings, images and badges
SkippedLine(trimmed) ==
    \/ StartsWith(trimmed, <<"#">>)
    \/ StartsWith(trimmed, <<"!", "[">>)
    \/ StartsWith(trimmed, <<"[", "!">>)
    \/ StartsWith(trimmed, <<"[", "!", "[">>)

\* the length past which the loop stops, and the length of the excerpt
ScanLimit == 300
ExcerptLength == 250

\* the for loop, from line i on, with its two locals
RECURSIVE ScanFrom(_, _, _, _)
ScanFrom(lines, i, paragraph, foundContent) ==
    IF i > Len(lines) THEN paragraph
    ELSE LET trimmed == Trim(lines[i])
         IN  IF trimmed = <<>>
             THEN IF foundContent /\ paragraph # <<>> THEN paragraph
                  ELSE ScanFrom(lines, i + 1, paragraph, foundContent)
             ELSE IF SkippedLine(trimmed)
             THEN ScanFrom(lines, i + 1, paragraph, foundContent)
             ELSE LET longer == paragraph
                                \o (IF paragraph # <<>> THEN <<" ">> ELSE <<>>)
                                \o trimmed
                  IN  IF Len(longer) > ScanLimit THEN longer
                      ELSE ScanFrom(lines, i + 1, longer, TRUE)

\* the first position at or after i where s has the character c (0: none)
FirstOf(s, i, c) ==
    LET at == {j \in i..Len(s) : s[j] = c}
    IN  IF at = {} THEN 0 ELSE CHOOSE j \in at : \A k \in at : j <= k

\* .replace(/\[([^\]]+)\]\([^)]+\)/g, '$1'), from position i on: a match starts
\* at a "[", the text of the link ends at the first "]", which "(" must
\* follow, and its target ends at the first ")"; the search goes on behind it
RECURSIVE ReplaceLinks(_, _)
ReplaceLinks(s, i) ==
    LET j == FirstOf(s, i, "[")
        e == FirstOf(s, j + 1, "]")
        f == IF e = 0 THEN 0 ELSE FirstOf(s, e + 2, ")")
    IN  IF j = 0 THEN SubSeq(s, i, Len(s))
        ELSE IF e > j + 1 /\ StartsAt(s, e + 1, <<"(">>) /\ f > e + 2
        THEN SubSeq(s, i, j - 1) \o SubSeq(s, j + 1, e - 1) \o ReplaceLinks(s, f + 1)
        ELSE SubSeq(s, i, j) \o ReplaceLinks(s, j + 1)

\* .replace(/d([^c]+)d/g, '$1') for a delimiter d made of the character c, from
\* position i on: a match starts where d stands, its inner text ends at the
\* first c, where d must stand again
RECURSIVE ReplacePairs(_, _, _, _)
ReplacePairs(s, i, d, c) ==
    LET j == FirstOf(s, i, c)
        b == j + Len(d)
        e == FirstOf(s, b, c)
    IN  IF j = 0 THEN SubSeq(s, i, Len(s))
        ELSE IF StartsAt(s, j, d) /\ e > b /\ StartsAt(s, e, d)
        THEN SubSeq(s, i, j - 1) \o SubSeq(s, b, e - 1) \o ReplacePairs(s, e + Len(d), d, c)
        ELSE SubSeq(s, i, j) \o ReplacePairs(s, j + 1, d, c)

\* the four replaces, in the order of the code: links, bold, italic, code
StripMarkdown(paragraph) ==
    ReplacePairs(
        ReplacePairs(
            ReplacePairs(ReplaceLinks(paragraph, 1), 1, <<"*", "*">>, "*"),
            1, <<"*">>, "*"),
        1, <<BackTick>>, BackTick)

\* paragraph.slice(0, 250) + (paragraph.length > 250 ? '...' : '')
Truncate(paragraph) ==
    SubSeq(paragraph, 1, Min(Len(paragraph), ExcerptLength))
    \o (IF Len(paragraph) > ExcerptLength THEN <<".", ".", ".">> ELSE <<>>)

ExtractFirstParagraph(lines) ==
    Truncate(StripMarkdown(ScanFrom(lines, 1, <<>>, FALSE)))

\* the lines of the readmes: blank, of spaces only, a heading, an image, a
\* badge, plain text, text with every kind of markup, and a long line
LongLength == 130
BlankLine == <<>>
SpacesLine == <<" ", " ">>
HeadingLine == <<"#", " ", "T">>
ImageLine == <<"!", "[", "b", "]", "(", "x", ")">>
BadgeLine == <<"[", "!", "[", "b", "]", "(", "x", ")", "]", "(", "y", ")">>
PlainLine == <<"H", "i">>
MarkedLine == <<" ", "a", " ", "*", "*", "b", "*", "*", " ", "[", "l", "]", "(", "u", ")",
                " ", "*", "i", "*", " ", BackTick, "c", BackTick, " ">>
LongLine == SubSeq([i \in 1..LongLength |-> "x"], 1, LongLength)
Lines == {BlankLine, SpacesLine, HeadingLine, ImageLine, BadgeLine, PlainLine,
          MarkedLine, LongLine}

MaxLines == 3
Readmes == UNION {[1..n -> Lines] : n \in 1..MaxLines}

\* extractFirstParagraph(markdown)
Extract(lines) ==
    /\ ~excerpt.done
    /\ markdown' = lines
    /\ excerpt' = [done |-> TRUE, text |-> ExtractFirstParagraph(lines)]
    /\ UNCHANGED <<apiVars, teVars, appVars, raceVars, logVars>>

-----------------------------------------------------------------------------
(* js/template-engine.js: texts, settings and snapshots *)

\* A text is a sequence of characters (strings of length one); an entity that
\* escapeHtml writes is one element, so that no escaped text holds a special
\* character.
Special == {"&", "<", ">", "\"", "'"}

Digits == <<"0", "1", "2", "3", "4", "5", "6", "7", "8", "9">>
Lower == <<"a", "b", "c", "d", "e", "f", "g", "h", "i", "j", "k", "l", "m",
           "n", "o", "p", "q", "r", "s", "t", "u", "v", "w", "x", "y", "z">>
Upper == <<"A", "B", "C", "D", "E", "F", "G", "H", "I", "J", "K", "L", "M",
           "N", "O", "P", "Q", "R", "S", "T", "U", "V", "W", "X", "Y", "Z">>

IndexIn(seq, c) == CHOOSE i \in 1..Len(seq) : seq[i] = c
In(seq, c) == \E i \in 1..Len(seq) : seq[i] = c

\* str.charCodeAt(i), for the characters the snapshots use
Punctuation == <<" ", "\"", "#", "&", "'", "-", ".", "/", ":", "<", "=", ">", "@", "_">>
PunctuationCodes == <<32, 34, 35, 38, 39, 45, 46, 47, 58, 60, 61, 62, 64, 95>>
CharCodes ==
    [c \in {Digits[i] : i \in 1..Len(Digits)} |-> 47 + IndexIn(Digits, c)]
    @@ [c \in {Upper[i] : i \in 1..Len(Upper)} |-> 64 + IndexIn(Upper, c)]
    @@ [c \in {Lower[i] : i \in 1..Len(Lower)} |-> 96 + IndexIn(Lower, c)]
    @@ [c \in {Punctuation[i] : i \in 1..Len(Punctuation)} |->
            PunctuationCodes[IndexIn(Punctuation, c)]]
CharCode(c) == CharCodes[c]

\* escapeHtml (falsy input gives the empty text)
EscapeChar(c) ==
    CASE c = "&" -> "&amp;"
      [] c = "<" -> "&lt;"
      [] c = ">" -> "&gt;"
      [] c = "\"" -> "&quot;"
      [] c = "'" -> "&#039;"
      [] OTHER -> c
EscapeHtml(str) == [i \in 1..Len(str) |-> EscapeChar(str[i])]

\* a || b for texts
OrText(a, b) == IF a # <<>> THEN a ELSE b

\* the settings object and its defaults
DefaultSettings ==
    [primaryColor |-> "#6366f1", accentColor |-> "#22d3ee", bio |-> <<>>,
     linkedin |-> <<>>, twitter |-> <<>>, email |-> <<>>, filterStarred |-> FALSE,
     filterNoForks |-> TRUE, sortBy |-> "stars", featuredRepos |-> <<>>]

\* { ...settings, ...newSettings }
Merge(old, new) ==
    [k \in DOMAIN old \cup DOMAIN new |-> IF k \in DOMAIN new THEN new[k] ELSE old[k]]



\* repo.languageData: absent, or the entries of the mapping in insertion order
NoLanguageData == [has |-> FALSE, entries |-> <<>>]
Languages(entries) == [has |-> TRUE, entries |-> entries]

\* a repository as the remote describes it, with the enrichment of fetchUserData
Repo(name, fork, stars, updated, description, homepage, topics, languageData) ==
    [name |-> name, fork |-> fork, stargazers_count |-> stars, updated_at |-> updated,
     description |-> description, html_url |-> <<"/">> \o name, homepage |-> homepage,
     topics |-> topics, languageData |-> languageData]

Snapshot(info, rs) == [kind |-> "data", userInfo |-> info, repos |-> rs]

\* nine repositories, two of them forks, in the order the remote lists them
MixedRepos ==
    << Repo(<<"g", "i", "t", "f", "o", "l", "i", "o">>, FALSE, 5, 90, <<"p", "o", "r", "t", "f", "o", "l", "i", "o">>,
         <<"g", "i", "t", "f", "o", "l", "i", "o", ".", "d", "e", "v">>, <<<<"j", "s">>, <<"c", "s", "s">>, <<"h", "t", "m", "l">>>>,
         Languages(<<<<<<"J", "a", "v", "a", "S", "c", "r", "i", "p", "t">>, 600>>, <<<<"C", "S", "S">>, 300>>, <<<<"H", "T", "M", "L">>, 100>>>>)),
       Repo(<<"d", "o", "t", "f", "i", "l", "e", "s">>, FALSE, 0, 80, <<>>,
         <<>>, <<>>,
         Languages(<<<<<<"S", "h", "e", "l", "l">>, 1234>>>>)),
       Repo(<<"l", "i", "n", "u", "x">>, TRUE, 9, 70, <<"k", "e", "r", "n", "e", "l">>,
         <<>>, <<>>,
         Languages(<<<<<<"C">>, 171>>, <<<<"S", "h", "e", "l", "l">>, 29>>>>)),
       Repo(<<"b", "l", "o", "g">>, FALSE, 5, 60, <<>>,
         <<>>, <<<<"b", "l", "o", "g">>>>,
         Languages(<<<<<<"A">>, 1>>, <<<<"B">>, 1>>, <<<<"C">>, 1>>>>)),
       Repo(<<"a", "p", "i">>, FALSE, 12, 50, <<"r", "e", "s", "t", " ", "a", "p", "i">>,
         <<>>, <<>>,
         Languages(<<<<<<"G", "o">>, 150>>, <<<<"R", "u", "s", "t">>, 500>>, <<<<"C">>, 50>>, <<<<"S", "h", "e", "l", "l">>, 300>>>>)),
       Repo(<<"z", "e", "t", "a">>, FALSE, 1, 40, <<>>,
         <<>>, <<>>,
         Languages(<<>>)),
       Repo(<<"A", "l", "p", "h", "a">>, FALSE, 3, 30, <<>>,
         <<>>, <<>>,
         Languages(<<<<<<"T", "e", "x", "t">>, 0>>>>)),
       Repo(<<"r", "e", "a", "c", "t">>, TRUE, 100, 20, <<"u", "i">>,
         <<"r", "e", "a", "c", "t", ".", "d", "e", "v">>, <<>>,
         NoLanguageData),
       Repo(<<"b", "e", "t", "a">>, FALSE, 2, 10, <<>>,
         <<>>, <<>>,
         Languages(<<<<<<"D", "a", "r", "t">>, 0>>, <<<<"V", "u", "e">>, 0>>>>)) >>

MixedUser ==
    [name |-> <<"A", "d", "a">>, login |-> <<"a", "d", "a">>, bio |-> <<"h", "i">>, avatar_url |-> <<"/", "a", ".", "p", "n", "g">>,
     location |-> <<"O", "s", "l", "o">>, html_url |-> <<"/", "a", "d", "a">>]

\* userData before setUserData
NoUserInfoTexts ==
    [name |-> <<>>, login |-> <<>>, bio |-> <<>>, avatar_url |-> <<>>,
     location |-> <<>>, html_url |-> <<>>]
NoUserData == [kind |-> "null", userInfo |-> NoUserInfoTexts, repos |-> <<>>]

\* a snapshot of ManyCount repositories, none a fork, with distinct star counts
ManyCount == 25
RepoName(k) == <<"r", Digits[(k \div 10) + 1], Digits[(k % 10) + 1]>>
ManyRepos ==
    [k \in 1..ManyCount |->
        Repo(RepoName(k), FALSE, ((k * 7) % ManyCount) + 1, ManyCount - k, <<>>,
             <<>>, <<>>, NoLanguageData)]

\* texts with the characters of markup, and the names whose hash is -2^31
OddRepos ==
    << Repo(<<"G", "y", "d", "Z", "G", "_">>, FALSE, 1, 20, <<"<", "b", ">", "b", "o", "l", "d", "<", "/", "b", ">">>,
         <<"\"", ">", "<", "s", "c", "r", "i", "p", "t", ">">>, <<<<"<", "i", ">">>, <<"a", "&", "b">>, <<"c">>>>,
         Languages(<<<<<<"<", "s", ">">>, 10>>>>)),
       Repo(<<"p", "o", "l", "y", "g", "e", "n", "e", "l", "u", "b", "r", "i", "c", "a", "n", "t", "s">>, FALSE, 2, 10, <<"i", "t", "'", "s">>,
         <<>>, <<>>,
         NoLanguageData) >>

OddUser ==
    [name |-> <<>>, login |-> <<"o", "'", "n", "e", "i", "l">>, bio |-> <<"a", "<", "b">>, avatar_url |-> <<"\"", "x">>,
     location |-> <<"<", "h", "e", "r", "e", ">">>, html_url |-> <<"/", "o", "'", "n", "e", "i", "l">>]

Snapshots ==
    {Snapshot(MixedUser, MixedRepos), Snapshot(MixedUser, ManyRepos),
     Snapshot(OddUser, OddRepos)}

\* what the user may enter
FeaturedChoices ==
    { <<>>,
      <<<<"b", "e", "t", "a">>, <<"a", "p", "i">>>>,
      <<<<"n", "o", "s", "u", "c", "h">>, <<"l", "i", "n", "u", "x">>, <<"z", "e", "t", "a">>, <<"b", "l", "o", "g">>, <<"a", "p", "i">>, <<"g", "i", "t", "f", "o", "l", "i", "o">>, <<"d", "o", "t", "f", "i", "l", "e", "s">>, <<"A", "l", "p", "h", "a">>, <<"b", "e", "t", "a">>>>,
      <<<<"n", "o", "s", "u", "c", "h">>>> }
SortChoices == {"stars", "updated", "name"}
TextChoices == {<<>>, <<"@", "a", "\"", "<">>}
Templates == {"minimal", "dark", "creative"}


-----------------------------------------------------------------------------
(* js/template-engine.js: the functions *)

\* Array.prototype.sort with a consistent comparator is stable: an element
\* lands after those that must precede it and the equal ones that stood before
\* it. precedes[i][j]: the comparator puts seq[i] before seq[j].
StableSort(seq, precedes) ==
    LET n == Len(seq)
        rank == SubSeq([i \in 1..n |->
                    Cardinality({j \in 1..n :
                        \/ precedes[j][i]
                        \/ (~precedes[i][j] /\ j < i)}) + 1], 1, n)
    IN  SubSeq([p \in 1..n |-> seq[CHOOSE i \in 1..n : rank[i] = p]], 1, n)

\* a.localeCompare(b) < 0 for names of letters, digits, '-', '_' and '.': the
\* letters compare without regard to case first, lower case first among equals.
FoldCodes ==
    [c \in DOMAIN CharCodes |-> IF In(Upper, c) THEN CharCodes[c] + 32 ELSE CharCodes[c]]

LexLess(a, b, codes) ==
    \E k \in 1..(Min(Len(a), Len(b)) + 1) :
        /\ \A i \in 1..(k - 1) : codes[a[i]] = codes[b[i]]
        /\ \/ (k > Len(a) /\ k <= Len(b))
           \/ (k <= Len(a) /\ k <= Len(b) /\ codes[a[k]] < codes[b[k]])

NameLess(a, b) ==
    \/ LexLess(a, b, FoldCodes)
    \/ (~LexLess(b, a, FoldCodes) /\ LexLess(b, a, CharCodes))

\* the three comparators of getFilteredRepos; any other sortBy leaves the order
RepoPrecedesMutant(a, b, sortBy) ==
    CASE sortBy = "stars" -> b.stargazers_count < a.stargazers_count
      [] sortBy = "updated" -> b.updated_at < a.updated_at
      [] sortBy = "name" -> NameLess(b.name, a.name)
      [] OTHER -> FALSE
RepoPrecedes(a, b, sortBy) ==
    CASE sortBy = "stars" -> b.stargazers_count < a.stargazers_count
      [] sortBy = "updated" -> b.updated_at < a.updated_at
      [] sortBy = "name" -> NameLess(a.name, b.name)
      [] OTHER -> FALSE

\* getFilteredRepos
GetFilteredRepos(ud, st) ==
    IF ud.kind = "null" THEN <<>>
    ELSE LET kept == IF st.filterNoForks THEN SelectSeq(ud.repos, LAMBDA r : ~r.fork)
                     ELSE ud.repos
             precedes == [i \in 1..Len(kept) |-> [j \in 1..Len(kept) |->
                            RepoPrecedes(kept[i], kept[j], st.sortBy)]]
         IN  StableSort(kept, precedes)

\* repos.find(r => r.name === name): its index, 0 when there is none
Find(rs, name) ==
    IF \E i \in 1..Len(rs) : rs[i].name = name
    THEN CHOOSE i \in 1..Len(rs) : rs[i].name = name /\ \A j \in 1..(i - 1) : rs[j].name # name
    ELSE 0

FeaturedLimit == 6

\* .map(find).filter(Boolean).slice(0, 6)
ResolveMutant(names, rs) ==
    LET first == SubSeq(names, 1, Min(FeaturedLimit, Len(names)))
        found == SelectSeq(first, LAMBDA nm : Find(rs, nm) # 0)
    IN  [i \in 1..Len(found) |-> rs[Find(rs, found[i])]]
Resolve(names, rs) ==
    LET found == SelectSeq(names, LAMBDA nm : Find(rs, nm) # 0)
    IN  [i \in 1..Min(FeaturedLimit, Len(found)) |-> rs[Find(rs, found[i])]]

\* getFeaturedRepos
GetFeaturedRepos(ud, st) ==
    LET rs == GetFilteredRepos(ud, st)
    IN  IF Len(st.featuredRepos) > 0 THEN Resolve(st.featuredRepos, rs)
        ELSE SubSeq(rs, 1, Min(FeaturedLimit, Len(rs)))

\* Math.round((bytes / total) * 100) in double precision. 0 / 0 is NaN. For
\* totals up to 1000 the product falls just under a half that the exact value
\* reaches (14.499999999999998 for 29 / 200) for four ratios, and is rounded
\* down there; everywhere else the result is the exact value rounded half up.
NaN == -1
UnderHalf == {<<23, 40>>, <<29, 200>>, <<57, 200>>, <<113, 200>>}
RoundPercent(bytes, total) ==
    IF total = 0 THEN NaN
    ELSE IF \E r \in UnderHalf : bytes * r[2] = total * r[1]
         THEN (100 * bytes) \div total
         ELSE (200 * bytes + total) \div (2 * total)

RECURSIVE TotalBytes(_)
TotalBytes(entries) ==
    IF entries = <<>> THEN 0 ELSE entries[1][2] + TotalBytes(Tail(entries))

LanguageLimit == 3

\* getTopLanguages(repo)
GetTopLanguages(repo) ==
    IF ~repo.languageData.has THEN <<>>
    ELSE LET entries == repo.languageData.entries
             total == TotalBytes(entries)
             precedes == [i \in 1..Len(entries) |-> [j \in 1..Len(entries) |->
                            entries[j][2] < entries[i][2]]]
             sorted == StableSort(entries, precedes)
         IN  [i \in 1..Min(LanguageLimit, Len(sorted)) |->
                [name |-> sorted[i][1], percent |-> RoundPercent(sorted[i][2], total)]]

\* hashCode: hash = ((hash << 5) - hash) + charCode, hash |= 0, on the two
\* 16-bit halves of the 32-bit word
HalfWord == 65536
HashStep(h, code) ==
    LET lo == 31 * h.lo + code
        hi == 31 * h.hi + (lo \div HalfWord)
    IN  [hi |-> hi % HalfWord, lo |-> lo % HalfWord]

RECURSIVE HashFrom(_, _)
HashFrom(h, str) ==
    IF str = <<>> THEN h ELSE HashFrom(HashStep(h, CharCode(Head(str))), Tail(str))

HashCode(str) == HashFrom([hi |-> 0, lo |-> 0], str)

\* the sign bit of the word
Negative(h) == h.hi >= HalfWord \div 2

\* |h| % m, the magnitude of a negative word being 2^32 minus the word
AbsMod(h, m) ==
    IF Negative(h)
    THEN (((HalfWord - h.hi) % m) * (HalfWord % m) + m - (h.lo % m)) % m
    ELSE ((h.hi % m) * (HalfWord % m) + (h.lo % m)) % m

GradientCount == 6

\* Math.abs(hashCode(repo.name)) % gradients.length
GradientIndexMutant(name) ==
    IF Negative(HashCode(name)) THEN 0 - AbsMod(HashCode(name), GradientCount)
    ELSE AbsMod(HashCode(name), GradientCount)
GradientIndex(name) == AbsMod(HashCode(name), GradientCount)


\* one interpolation ${...} of a template: the place and the text put there
Frag(slot, text) == [slot |-> slot, text |-> text]

NoDescription == <<"No description">>

\* str.replace('@', ''): the first '@' goes
RemoveFirst(str, c) ==
    IF In(str, c)
    THEN LET i == CHOOSE i \in 1..Len(str) : str[i] = c /\ \A j \in 1..(i - 1) : str[j] # c
         IN  SubSeq(str, 1, i - 1) \o SubSeq(str, i + 1, Len(str))
    ELSE str

LanguageFrags(langs) == [i \in 1..Len(langs) |-> Frag("language", langs[i].name)]
TopicFrags(topics) ==
    [i \in 1..Min(2, Len(topics)) |-> Frag("topic", topics[i])]
HomepageFrags(repo) ==
    IF repo.homepage # <<>> THEN <<Frag("homepage", repo.homepage)>> ELSE <<>>

\* generateProjectCard(repo, template): the texts it interpolates, in the order
\* of the template
CardFrags(repo, template) ==
    LET langs == GetTopLanguages(repo)
        description == OrText(EscapeHtml(repo.description), NoDescription)
        name == Frag("repo name", EscapeHtml(repo.name))
        url == Frag("repo url", repo.html_url)
    IN  CASE template = "minimal" ->
                <<url, name, Frag("description", description)>>
                \o LanguageFrags(langs) \o HomepageFrags(repo)
          [] template = "dark" ->
                <<url>> \o HomepageFrags(repo) \o <<name, Frag("description", description)>>
                \o LanguageFrags(langs)
                \o (IF Len(langs) > 0 THEN <<Frag("language", langs[1].name)>> ELSE <<>>)
          [] template = "creative" ->
                TopicFrags(repo.topics) \o <<name, Frag("description", description)>>
                \o LanguageFrags(langs) \o <<url>> \o HomepageFrags(repo)
          [] OTHER -> <<>>

Card(repo, template) ==
    [name |-> repo.name,
     langs |-> GetTopLanguages(repo),
     gradient |-> IF template = "creative" THEN GradientIndex(repo.name) ELSE Null,
     frags |-> CardFrags(repo, template)]

\* generateSocialLinks()
SocialFrags(ud, st) ==
    (IF st.linkedin # <<>> THEN <<Frag("linkedin", st.linkedin)>> ELSE <<>>)
    \o (IF st.twitter # <<>> THEN <<Frag("twitter", RemoveFirst(st.twitter, "@"))>> ELSE <<>>)
    \o (IF st.email # <<>> THEN <<Frag("email", st.email)>> ELSE <<>>)
    \o <<Frag("profile url", ud.userInfo.html_url)>>

\* the rows of the All Projects section
RestFrom == 6
Row(repo) ==
    [name |-> repo.name,
     frags |-> <<Frag("repo url", repo.html_url), Frag("repo name", EscapeHtml(repo.name)),
                 Frag("description", EscapeHtml(repo.description))>>]

\* allRepos.length > 6 ? allRepos.slice(6).map(...) : nothing
RestRowsMutant(allRepos) ==
    IF Len(allRepos) > RestFrom
    THEN [i \in 1..Len(allRepos) |-> Row(allRepos[i])]
    ELSE <<>>
RestRows(allRepos) ==
    IF Len(allRepos) > RestFrom
    THEN [i \in 1..(Len(allRepos) - RestFrom) |-> Row(allRepos[i + RestFrom])]
    ELSE <<>>

NoRender == [kind |-> "none", template |-> "", featured |-> <<>>, rest |-> <<>>,
             frags |-> <<>>]

\* render()
Render(ud, st, template) ==
    IF ud.kind = "null"
    THEN [NoRender EXCEPT !.kind = "no data"]
    ELSE LET user == ud.userInfo
             featuredRepos == GetFeaturedRepos(ud, st)
             allRepos == GetFilteredRepos(ud, st)
             name == OrText(user.name, user.login)
             bio == OrText(st.bio, user.bio)
             location == user.location
         IN  [kind |-> "page",
              template |-> template,
              featured |-> [i \in 1..Len(featuredRepos) |-> Card(featuredRepos[i], template)],
              rest |-> RestRows(allRepos),
              frags |-> <<Frag("display name", EscapeHtml(name)),
                          Frag("avatar url", user.avatar_url),
                          Frag("display name", EscapeHtml(name)),
                          Frag("display name", EscapeHtml(name))>>
                        \o (IF bio # <<>> THEN <<Frag("bio", EscapeHtml(bio))>> ELSE <<>>)
                        \o (IF location # <<>> THEN <<Frag("location", EscapeHtml(location))>>
                            ELSE <<>>)
                        \o SocialFrags(ud, st)]

\* the gradients of the cards of a render: pairs <<name, index>>
Gradients(r) ==
    IF r.template = "creative"
    THEN {<<r.featured[i].name, r.featured[i].gradient>> : i \in 1..Len(r.featured)}
    ELSE {}

\* rendered: the page of the last render() while the engine's state is the one
\* it rendered, and the gradients of the creative render before it
NoRendered == [page |-> NoRender, earlier |-> {}]
Forget(rd) ==
    [page |-> NoRender,
     earlier |-> IF Gradients(rd.page) # {} THEN Gradients(rd.page) ELSE rd.earlier]

-----------------------------------------------------------------------------
(* js/template-engine.js: the operations *)

\* TemplateEngine.setUserData(data)
SetUserData(d) ==
    /\ userData' = d
    /\ rendered' = Forget(rendered)
    /\ UNCHANGED <<currentTemplate, settings>>
    /\ UNCHANGED <<apiVars, appVars, readmeVars, raceVars, logVars>>

\* TemplateEngine.setTemplate(templateName)
SetTemplate(t) ==
    /\ currentTemplate' = t
    /\ rendered' = Forget(rendered)
    /\ UNCHANGED <<userData, settings>>
    /\ UNCHANGED <<apiVars, appVars, readmeVars, raceVars, logVars>>

\* what updateSettings is given: the whole form, as handleSettingsChange reads it
Form(sortBy, noForks, starred, featured, text) ==
    [DefaultSettings EXCEPT !.sortBy = sortBy, !.filterNoForks = noForks,
                            !.filterStarred = starred, !.featuredRepos = featured,
                            !.bio = text, !.linkedin = text, !.twitter = text,
                            !.email = text]
SettingsChoices ==
    {Form(s, f, FALSE, <<>>, <<>>) : s \in SortChoices, f \in BOOLEAN}
    \cup {Form(s, TRUE, TRUE, <<>>, <<>>) : s \in SortChoices}
    \cup {Form("stars", TRUE, FALSE, c, <<>>) : c \in FeaturedChoices}
    \cup {Form("name", FALSE, TRUE, c, <<>>) : c \in FeaturedChoices}
    \cup {Form("stars", TRUE, FALSE, <<>>, t) : t \in TextChoices}

\* TemplateEngine.updateSettings(newSettings)
UpdateSettings(new) ==
    /\ settings' = Merge(settings, new)
    /\ settings' # settings
    /\ rendered' = Forget(rendered)
    /\ UNCHANGED <<currentTemplate, userData>>
    /\ UNCHANGED <<apiVars, appVars, readmeVars, raceVars, logVars>>

\* TemplateEngine.render()
DoRender ==
    /\ rendered' = [page |-> Render(userData, settings, currentTemplate),
                    earlier |-> Forget(rendered).earlier]
    /\ rendered'.page # rendered.page
    /\ UNCHANGED <<currentTemplate, userData, settings>>
    /\ UNCHANGED <<apiVars, appVars, readmeVars, raceVars, logVars>>

NextTemplate ==
    \/ \E d \in Snapshots : SetUserData(d)
    \/ \E t \in Templates : SetTemplate(t)
    \/ \E new \in SettingsChoices : UpdateSettings(new)
    \/ DoRender

-----------------------------------------------------------------------------
(* js/app.js and js/export-handler.js: the page *)

MaxHandles == 7
MaxInFlight == 2

\* the text of a username, for the login of the snapshot fetched for it
UserText(u) == IF u = "alice" THEN <<"a", "l", "i", "c", "e">> ELSE <<"b", "o", "b">>

\* what fetchUserData(u) resolves to, as far as the page is concerned
FetchedData(u) ==
    Snapshot([MixedUser EXCEPT !.login = UserText(u)], SubSeq(MixedRepos, 1, 2))

\* the username passes the check of its format
ValidUsername(text) == text \in Users

\* URL.createObjectURL: handles are numbered as they are created
NewHandle(hs) == Len(hs) + 1

\* ExportHandler.getPreviewDataUrl(): null without user data, else a new handle
GetPreviewDataUrl(ud, hs) == IF ud.kind = "null" THEN Null ELSE NewHandle(hs)
HandlesAfterGet(ud, hs) == IF ud.kind = "null" THEN hs ELSE Append(hs, 0)

\* ExportHandler.revokePreviewUrl(url): the handle is revoked once more
RevokePreviewUrl(hs, url) ==
    IF url # Null THEN [hs EXCEPT ![url] = @ + 1] ELSE hs

\* updatePreview(): the old handle is revoked, a new one taken
HandlesAfterUpdate(ud, hs, current) ==
    HandlesAfterGet(ud, IF current # Null THEN RevokePreviewUrl(hs, current) ELSE hs)
UrlAfterUpdate(ud, hs) == GetPreviewDataUrl(ud, hs)

UpdatePreview(ud) ==
    /\ handles' = HandlesAfterUpdate(ud, handles, currentPreviewUrl)
    /\ currentPreviewUrl' = UrlAfterUpdate(ud, handles)

\* the persisted settings: no item, text that is no JSON, JSON null, or an object
NoSettingsItem == [kind |-> "none", data |-> <<>>]
SettingsObject(r) == [kind |-> "object", data |-> r]

\* records other versions of the page or other scripts may have left
StoredSettings ==
    { NoSettingsItem,
      [kind |-> "garbage", data |-> <<>>],
      [kind |-> "null", data |-> <<>>],
      SettingsObject([k \in {"sortBy"} |-> "name"]),
      SettingsObject([k \in {"sortBy"} |-> "size"]),
      SettingsObject([k \in {"primaryColor", "bio"} |->
                        IF k = "bio" THEN <<"h", "i">> ELSE ""]),
      SettingsObject([k \in {"filterNoForks", "filterStarred"} |-> k = "filterStarred"]),
      SettingsObject([DefaultSettings EXCEPT !.accentColor = "#000000",
                                             !.sortBy = "updated"]) }

\* what the form can hold when a control changes
FormChoices ==
    { DefaultSettings,
      [DefaultSettings EXCEPT !.sortBy = "name", !.filterNoForks = FALSE] }

\* a compare frame: its src, whether its load is under way, and the url its
\* onload handler will release
NoFrame == [src |-> Null, loading |-> FALSE, onload |-> Null]

\* a handleGenerate invocation: awaiting fetchUserData, or its sleep(300)
Fetching(u) == [username |-> u, stage |-> "fetch"]
Remove(seq, i) == SubSeq(seq, 1, i - 1) \o SubSeq(seq, i + 1, Len(seq))

\* init(): loadSavedSettings()
Boot ==
    /\ booted = "no"
    /\ booted' = "loaded"
    /\ settings' =
        IF storageMode # "disabled" /\ settingsText.kind = "object"
        THEN Merge(settings, settingsText.data)
        ELSE settings
    /\ UNCHANGED <<currentTemplate, userData, rendered>>
    /\ UNCHANGED <<appPage, generates, currentPreviewUrl, handles, frames, timers,
                   settingsText>>
    /\ UNCHANGED <<apiVars, readmeVars, raceVars, logVars>>

\* handleGenerate() up to its await: a click on generate, or Enter in the field
Generate(text) ==
    /\ booted # "no"
    /\ Len(generates) < MaxInFlight
    /\ text \in typed
    /\ ValidUsername(text)
    /\ appPage' = "loading"
    /\ generates' = Append(generates, Fetching(text))
    /\ UNCHANGED <<currentPreviewUrl, handles, frames, timers, settingsText, booted>>
    /\ UNCHANGED <<apiVars, teVars, readmeVars, raceVars, logVars>>

\* fetchUserData of invocation i settles: the snapshot, or an error (toast,
\* back to the landing page)
FetchSettles(i, ok) ==
    /\ i \in 1..Len(generates)
    /\ generates[i].stage = "fetch"
    /\ IF ok
       THEN /\ generates' = [generates EXCEPT ![i].stage = "sleep"]
            /\ UNCHANGED appPage
       ELSE /\ generates' = Remove(generates, i)
            /\ appPage' = "landing"
    /\ UNCHANGED <<currentPreviewUrl, handles, frames, timers, settingsText, booted>>
    /\ UNCHANGED <<apiVars, teVars, readmeVars, raceVars, logVars>>

\* the sleep(300) of invocation i is over: setUserData, editor, updatePreview
ShowEditor(i) ==
    /\ i \in 1..Len(generates)
    /\ generates[i].stage = "sleep"
    /\ Len(handles) < MaxHandles
    /\ generates' = Remove(generates, i)
    /\ userData' = FetchedData(generates[i].username)
    /\ appPage' = "editor"
    /\ UpdatePreview(userData')
    /\ UNCHANGED <<currentTemplate, settings, rendered>>
    /\ UNCHANGED <<frames, timers, settingsText, booted>>
    /\ UNCHANGED <<apiVars, readmeVars, raceVars, logVars>>

\* handleSettingsChange(): updateSettings, saveSettings, updatePreview
SettingsChange(form) ==
    /\ booted # "no"
    /\ Len(handles) < MaxHandles
    /\ form # settings
    /\ settings' = Merge(settings, form)
    /\ settingsText' = IF storageMode = "ok" THEN SettingsObject(form) ELSE settingsText
    /\ booted' = "edited"
    /\ UpdatePreview(userData)
    /\ UNCHANGED <<currentTemplate, userData, rendered>>
    /\ UNCHANGED <<appPage, generates, frames, timers>>
    /\ UNCHANGED <<apiVars, readmeVars, raceVars, logVars>>

\* a template button: setTemplate, updatePreview
TemplateSwitch(t) ==
    /\ booted # "no"
    /\ Len(handles) < MaxHandles
    /\ t # currentTemplate
    /\ currentTemplate' = t
    /\ UpdatePreview(userData)
    /\ UNCHANGED <<userData, settings, rendered>>
    /\ UNCHANGED <<appPage, generates, frames, timers, settingsText, booted>>
    /\ UNCHANGED <<apiVars, readmeVars, raceVars, logVars>>

\* the refresh button: updatePreview
RefreshPreview ==
    /\ booted # "no"
    /\ userData.kind # "null"
    /\ Len(handles) < MaxHandles
    /\ UpdatePreview(userData)
    /\ UNCHANGED <<appPage, generates, frames, timers, settingsText, booted>>
    /\ UNCHANGED <<apiVars, teVars, readmeVars, raceVars, logVars>>

\* the back button
Back ==
    /\ booted # "no"
    /\ appPage # "landing" \/ currentPreviewUrl # Null
    /\ appPage' = "landing"
    /\ handles' = RevokePreviewUrl(handles, currentPreviewUrl)
    /\ currentPreviewUrl' = Null
    /\ UNCHANGED <<generates, frames, timers, settingsText, booted>>
    /\ UNCHANGED <<apiVars, teVars, readmeVars, raceVars, logVars>>

\* handleCompare(): each frame gets a new preview url and a new onload handler;
\* a load still under way in the frame is abandoned with its document. The
\* template is switched for each url and restored at the end.
CompareOrder == <<"minimal", "dark", "creative">>

Compare ==
    /\ booted # "no"
    /\ userData.kind # "null"
    /\ Len(handles) + Len(CompareOrder) <= MaxHandles
    /\ handles' = handles \o [i \in 1..Len(CompareOrder) |-> 0]
    /\ frames' = [t \in Templates |->
                    LET url == Len(handles) + IndexIn(CompareOrder, t)
                    IN  [src |-> url, loading |-> TRUE, onload |-> url]]
    /\ UNCHANGED <<appPage, generates, currentPreviewUrl, timers, settingsText, booted>>
    /\ UNCHANGED <<apiVars, teVars, readmeVars, raceVars, logVars>>

\* the document of a compare frame has loaded: onload starts its timer
FrameLoads(t) ==
    /\ frames[t].loading
    /\ frames' = [frames EXCEPT ![t].loading = FALSE]
    /\ timers' = timers \cup {frames[t].onload}
    /\ UNCHANGED <<appPage, generates, currentPreviewUrl, handles, settingsText, booted>>
    /\ UNCHANGED <<apiVars, teVars, readmeVars, raceVars, logVars>>

\* a timer of handleCompare runs: revokePreviewUrl(url)
TimerFires(url) ==
    /\ url \in timers
    /\ timers' = timers \ {url}
    /\ handles' = RevokePreviewUrl(handles, url)
    /\ UNCHANGED <<appPage, generates, currentPreviewUrl, frames, settingsText, booted>>
    /\ UNCHANGED <<apiVars, teVars, readmeVars, raceVars, logVars>>

\* the steps that read or write the settings, and those that bring user data
NextSettings ==
    \/ Boot
    \/ \E text \in Users : Generate(text)
    \/ \E i \in 1..MaxInFlight, ok \in BOOLEAN : FetchSettles(i, ok)
    \/ \E i \in 1..MaxInFlight : ShowEditor(i)
    \/ \E form \in FormChoices : SettingsChange(form)

NextApp ==
    \/ Boot
    \/ \E text \in Users : Generate(text)
    \/ \E i \in 1..MaxInFlight, ok \in BOOLEAN : FetchSettles(i, ok)
    \/ \E i \in 1..MaxInFlight : ShowEditor(i)
    \/ \E form \in FormChoices : SettingsChange(form)
    \/ \E t \in Templates : TemplateSwitch(t)
    \/ RefreshPreview
    \/ Back
    \/ Compare
    \/ \E t \in Templates : FrameLoads(t)
    \/ \E url \in 1..MaxHandles : TimerFires(url)

-----------------------------------------------------------------------------
(* js/github-api.js: fetchUserData invocations that overlap *)

\* handleGenerate does not wait for an earlier fetchUserData to settle, so
\* several invocations can be between two of their awaits at once. Each has its
\* own username, userInfo and repos (parameters and consts of the function);
\* the cache slot is shared. A step is what one invocation does from one
\* await to the next; the responses are successes or failures without headers.
MaxStarts == 3

\* the variables of the API these steps leave alone
raceRest == <<now, storageMode, rateLimitRemaining, rateLimitReset, remoteCount, pc,
              username, userInfo, repos, page, idx, pending, calls, result, lastResponse,
              prev, clearThrew, lastCall, startedAt, atCall, faultsLeft, ticksLeft, typed>>

\* the locals of the no-th invocation, for u, at its first await
Invocation(u, no) ==
    [username |-> u, no |-> no, step |-> "user", userInfo |-> NoUserInfo,
     repos |-> NoRepos, idx |-> 1]

\* what an invocation hands to setCachedData on line 234: its own parameter
\* and its own consts
FinishedRecordMutant(inv) ==
    [username |-> Last(invocations).username, repos |-> inv.repos,
     userInfo |-> inv.userInfo]
FinishedRecord(inv) ==
    [username |-> inv.username, repos |-> inv.repos, userInfo |-> inv.userInfo]

\* fetchUserData(u) up to its first await: the cached record, or fetchUser
StartFetch(u) ==
    /\ u \in typed
    /\ callsLeft > 0
    /\ Len(invocations) < MaxInFlight
    /\ callsLeft' = callsLeft - 1
    /\ LET no == MaxStarts - callsLeft + 1
           cached == GetCachedData(u, storage, storageMode, now)
       IN  invocations' = Append(invocations,
                IF CacheHit(u, storage, storageMode, now)
                THEN [Invocation(u, no) EXCEPT !.step = "hit", !.userInfo = cached.userInfo,
                                               !.repos = cached.repos]
                ELSE Invocation(u, no))
    /\ UNCHANGED <<storage, wrote, raceRest>>
    /\ UNCHANGED <<teVars, appVars, readmeVars, logVars>>

\* the caller of invocation i has the cached record
ReturnCached(i) ==
    /\ i \in 1..Len(invocations)
    /\ invocations[i].step = "hit"
    /\ invocations' = Remove(invocations, i)
    /\ UNCHANGED <<storage, wrote, callsLeft, raceRest>>
    /\ UNCHANGED <<teVars, appVars, readmeVars, logVars>>

\* fetchUser of invocation i is answered; on a failure the invocation throws
UserArrives(i, ok) ==
    /\ i \in 1..Len(invocations)
    /\ invocations[i].step = "user"
    /\ invocations' =
        IF ok THEN [invocations EXCEPT ![i].step = "repos",
                                       ![i].userInfo = RemoteUser(invocations[i].username)]
        ELSE Remove(invocations, i)
    /\ UNCHANGED <<storage, wrote, callsLeft, raceRest>>
    /\ UNCHANGED <<teVars, appVars, readmeVars, logVars>>

\* the page of fetchRepos of invocation i is answered (the list is shorter
\* than a page and not empty); then the first languages request
ReposArrive(i, ok) ==
    /\ i \in 1..Len(invocations)
    /\ invocations[i].step = "repos"
    /\ invocations' =
        IF ok THEN [invocations EXCEPT
                        ![i].step = "enrich",
                        ![i].repos = Push(NoRepos, RemotePage(invocations[i].username,
                                                              remoteCount, 1))]
        ELSE Remove(invocations, i)
    /\ UNCHANGED <<storage, wrote, callsLeft, raceRest>>
    /\ UNCHANGED <<teVars, appVars, readmeVars, logVars>>

\* the languages and the readme of repository idx of invocation i are
\* answered, both well or both not, and its sleep(50) begins
EnrichArrives(i, ok) ==
    /\ i \in 1..Len(invocations)
    /\ invocations[i].step = "enrich"
    /\ LET inv == invocations[i]
           k == inv.repos.names[inv.idx]
           out == Outcome(IF ok THEN 200 ELSE 500)
           rs == SetReadmeExcerpt(SetLanguageData(inv.repos, inv.idx, LanguagesValue(out, k)),
                                  inv.idx, ReadmeValue(out, "ok", k))
       IN  invocations' = [invocations EXCEPT ![i].step = "sleep", ![i].repos = rs]
    /\ UNCHANGED <<storage, wrote, callsLeft, raceRest>>
    /\ UNCHANGED <<teVars, appVars, readmeVars, logVars>>

\* a sleep(50) of invocation i is over: the next repository, or setCachedData
\* and the return
WakeInvocation(i) ==
    /\ i \in 1..Len(invocations)
    /\ invocations[i].step = "sleep"
    /\ LET inv == invocations[i]
           r == FinishedRecord(inv)
       IN  IF EnrichmentOver(inv.idx, inv.repos)
           THEN /\ invocations' = Remove(invocations, i)
                /\ storage' = SetCachedData(r.username, r.repos, r.userInfo, storage,
                                            storageMode, now)
                /\ wrote' = [done |-> storageMode = "ok", user |-> inv.username, at |-> now]
           ELSE /\ invocations' = [invocations EXCEPT ![i].step = "enrich",
                                                      ![i].idx = inv.idx + 1]
                /\ UNCHANGED <<storage, wrote>>
    /\ UNCHANGED <<callsLeft, raceRest>>
    /\ UNCHANGED <<teVars, appVars, readmeVars, logVars>>

NextRace ==
    \/ \E u \in Users : StartFetch(u)
    \/ \E i \in 1..MaxInFlight : ReturnCached(i)
    \/ \E i \in 1..MaxInFlight, ok \in BOOLEAN : UserArrives(i, ok)
    \/ \E i \in 1..MaxInFlight, ok \in BOOLEAN : ReposArrive(i, ok)
    \/ \E i \in 1..MaxInFlight, ok \in BOOLEAN : EnrichArrives(i, ok)
    \/ \E i \in 1..MaxInFlight : WakeInvocation(i)

-----------------------------------------------------------------------------
(* The steps *)

\* the steps of the program
Next ==
    \/ \E u \in Users : Call(u)
    \/ \E resp \in Responses : Respond(resp)
    \/ WakePage
    \/ WakeEnrich
    \/ Finish
    \/ Return

\* the steps of the program, of its clock and of a caller that clears the cache
\* (fetchRepos does not sleep when the list is shorter than a page)
NextCache ==
    \/ \E u \in Users : Call(u)
    \/ \E resp \in Responses : Respond(resp)
    \/ WakeEnrich
    \/ Finish
    \/ Return
    \/ ClearCache
    \/ \E d \in TickSteps : Tick(d)

-----------------------------------------------------------------------------
(* Specifications *)

\* the repository counts of the fetch specification: around the enrichment
\* limits and around the page size
RepoCounts ==
    {0, 1, ReadmeRepos, ReadmeRepos + 1, perPage + 1}
    \cup {p * perPage : p \in 1..MaxPages}

\* the page as loaded, but for its clock, its storage and its limiter
InitProgram ==
    /\ pc = "idle"
    /\ username = ""
    /\ userInfo = NoUserInfo
    /\ repos = NoRepos
    /\ page = 1
    /\ idx = 1
    /\ pending = NoReq
    /\ calls = <<>>
    /\ result = NoResult
    /\ lastResponse = NoResponse
    /\ lastCall = NoCall
    /\ startedAt = 0
    /\ atCall = NoAtCall
    /\ markdown = <<>>
    /\ excerpt = NoExcerpt
    /\ invocations = <<>>
    /\ prev = NoPrev
    /\ clearThrew = FALSE
    /\ wrote = NoWrite
    /\ currentTemplate = "minimal"
    /\ userData = NoUserData
    /\ settings = DefaultSettings
    /\ rendered = NoRendered
    /\ appPage = "landing"
    /\ generates = <<>>
    /\ currentPreviewUrl = Null
    /\ handles = <<>>
    /\ frames = [t \in Templates |-> NoFrame]
    /\ timers = {}

\* ... with the limiter as line 11 and line 12 initialise it
InitCommon ==
    /\ InitProgram
    /\ logHeaders = FALSE
    /\ rateLimitRemaining = InitialQuota
    /\ rateLimitReset = Null

\* one invocation against an empty, working cache, with up to MaxFaults
\* responses that are not the plain 200
Init ==
    /\ InitCommon
    /\ settingsText = NoSettingsItem
    /\ booted = "no"
    /\ now \in {0, CACHE_DURATION}
    /\ storage = NoItem
    /\ storageMode = "ok"
    /\ remoteCount \in RepoCounts
    /\ faultsLeft = MaxFaults
    /\ ticksLeft = 0
    /\ callsLeft = 1
    /\ typed = {"alice"}

Spec == Init /\ [][Next]_vars

\* what localStorage may hold when the page loads: nothing, text that is no
\* JSON, JSON null, records of another shape, a record of an earlier session
ForeignRecords ==
    { [NoData EXCEPT !.has = {}],
      [NoData EXCEPT !.has = {"username"}, !.username = "alice"],
      [NoData EXCEPT !.has = {"username", "repos", "userInfo"}, !.username = "alice",
                     !.repos = RepoList(<<RemoteRepo("alice", 1)>>), !.userInfo = RemoteUser("alice")],
      [NoData EXCEPT !.has = {"username", "userInfo", "lastFetch"}, !.username = "alice",
                     !.userInfo = RemoteUser("alice")] }

\* the record an earlier session left
EarlierRecord ==
    Stringify(UserData("alice", RepoList(<<RemoteRepo("alice", 1)>>), RemoteUser("alice"), 0))

InitialTexts ==
    {NoItem, Garbage, JsonNull, EarlierRecord} \cup {Stringify(d) : d \in ForeignRecords}

CacheRepoCounts == {0, 2}
MaxCalls == 2

\* several invocations, for either username, with plain responses, a clock that
\* advances and a storage that works, is full or is disabled
InitCache ==
    /\ InitCommon
    /\ settingsText = NoSettingsItem
    /\ booted = "no"
    /\ now = 0
    /\ storage \in {NoItem, EarlierRecord}
    /\ storageMode \in {"ok", "full", "disabled"}
    /\ remoteCount \in CacheRepoCounts
    /\ faultsLeft = 0
    /\ ticksLeft = MaxTicks
    /\ callsLeft = MaxCalls
    /\ typed = Users

SpecCache == InitCache /\ [][NextCache]_vars

\* one invocation against a storage that holds whatever an earlier session,
\* another version of the page or another script left under the key
InitForeign ==
    /\ InitCommon
    /\ settingsText = NoSettingsItem
    /\ booted = "no"
    /\ now = 0
    /\ storage \in InitialTexts
    /\ storageMode \in {"ok", "full", "disabled"}
    /\ remoteCount \in CacheRepoCounts
    /\ faultsLeft = 0
    /\ ticksLeft = MaxTicks
    /\ callsLeft = 1
    /\ typed = Users

SpecForeign == InitForeign /\ [][NextCache]_vars

\* an API that is never called
InitIdle ==
    /\ InitCommon
    /\ now = 0
    /\ storage = NoItem
    /\ remoteCount = 0
    /\ faultsLeft = 0
    /\ ticksLeft = 0
    /\ callsLeft = 0

\* the TemplateEngine by itself: any order of its operations, on three
\* snapshots and the settings a user can choose
InitTemplate ==
    /\ InitIdle
    /\ storageMode = "ok"
    /\ typed = {}
    /\ settingsText = NoSettingsItem
    /\ booted = "no"

SpecTemplate == InitTemplate /\ [][NextTemplate]_vars

\* the page: init() and then the events of the user, the network, the frames
\* and the timers in any order
InitApp ==
    /\ InitIdle
    /\ storageMode = "ok"
    /\ typed = {"alice"}
    /\ settingsText = NoSettingsItem
    /\ booted = "no"

SpecApp == InitApp /\ [][NextApp]_vars

\* the page on whatever the settings key holds, with a storage that works or
\* is disabled: init(), portfolios generated and settings changed
InitSettings ==
    /\ InitIdle
    /\ storageMode \in {"ok", "disabled"}
    /\ typed = Users
    /\ settingsText \in StoredSettings
    /\ booted = "no"

SpecSettings == InitSettings /\ [][NextSettings]_vars

\* the responses of the limiter specification: every kind of status, each
\* header absent, zero or positive (a fetch() that rejects carries none)
LimiterResponses ==
    [status : {200, 403, 404, 500}, remaining : {NoHeader, 0, InitialQuota - 1},
     reset : {NoHeader, ResetSeconds}, body : {"ok"}]
    \cup [status : {0}, remaining : {NoHeader}, reset : {NoHeader}, body : {"ok"}]

\* the clock steps of the limiter specification: to just before the reset
\* instant, and onto it
LimiterTicks == {1, ResetSeconds * 1000 - 1}

NextLimiter ==
    \/ \E u \in Users : Call(u)
    \/ \E resp \in LimiterResponses : Respond(resp)
    \/ WakeEnrich
    \/ Finish
    \/ Return
    \/ \E d \in LimiterTicks : Tick(d)

\* the record an earlier session left for the other username
OthersRecord ==
    Stringify(UserData("bob", RepoList(<<RemoteRepo("bob", 1)>>), RemoteUser("bob"), 0))

\* one invocation against a cache that holds the record of another
\* username, in a session whose limiter is as initialised or as an
\* earlier response left it (no quota left, a reset instant known or not),
\* with responses that carry rate-limit headers and a clock that advances
InitLimiter ==
    /\ InitProgram
    /\ logHeaders = TRUE
    /\ rateLimitRemaining \in {InitialQuota, 0}
    /\ rateLimitReset \in {Null, ResetSeconds * 1000}
    /\ settingsText = NoSettingsItem
    /\ booted = "no"
    /\ now = 0
    /\ storage = OthersRecord
    /\ storageMode = "ok"
    /\ remoteCount \in {0, 2}
    /\ faultsLeft = MaxFaults
    /\ ticksLeft = MaxTicks
    /\ callsLeft = 1
    /\ typed = {"alice"}

SpecLimiter == InitLimiter /\ [][NextLimiter]_vars

\* the repository counts of the quota specification: none, fewer than the
\* enrichment limits, and full pages
QuotaRepoCounts == {0, 3} \cup {p * perPage : p \in 1..MaxPages}

\* invocations one after the other for one username against a cache that
\* starts empty, with up to MaxFaults responses that are not the plain 200
InitQuota ==
    /\ InitCommon
    /\ settingsText = NoSettingsItem
    /\ booted = "no"
    /\ now = 0
    /\ storage = NoItem
    /\ storageMode = "ok"
    /\ remoteCount \in QuotaRepoCounts
    /\ faultsLeft = MaxFaults
    /\ ticksLeft = 0
    /\ callsLeft = MaxCalls
    /\ typed = {"alice"}

\* the responses of the quota specification
QuotaResponses ==
    [status : {0, 200, 403, 404}, remaining : {NoHeader, 0},
     reset : {NoHeader, ResetSeconds}, body : {"ok"}]

NextQuota ==
    \/ Call("alice")
    \/ \E resp \in QuotaResponses : Respond(resp)
    \/ WakePage
    \/ WakeEnrich
    \/ Finish
    \/ Return

SpecQuota == InitQuota /\ [][NextQuota]_vars

\* up to MaxStarts invocations, MaxInFlight of them at once, for either
\* username, against a cache that starts empty and a storage that works or
\* is full
InitRace ==
    /\ InitCommon
    /\ settingsText = NoSettingsItem
    /\ booted = "no"
    /\ now = 0
    /\ storage = NoItem
    /\ storageMode \in {"ok", "full"}
    /\ remoteCount = 2
    /\ faultsLeft = 0
    /\ ticksLeft = 0
    /\ callsLeft = MaxStarts
    /\ typed = Users

SpecRace == InitRace /\ [][NextRace]_vars

\* extractFirstParagraph by itself, on every readme of up to MaxLines lines
NextReadme == \E lines \in Readmes : Extract(lines)

InitReadme ==
    /\ InitIdle
    /\ storageMode = "ok"
    /\ typed = {}
    /\ settingsText = NoSettingsItem
    /\ booted = "no"

SpecReadme == InitReadme /\ [][NextReadme]_vars

-----------------------------------------------------------------------------
(* What the claims speak of *)

Dispatched(cs) == SelectSeq(cs, LAMBDA e : e.sent)
PageCalls(cs) == SelectSeq(cs, LAMBDA e : e.req.kind = "repos")
EnrichCalls(cs) == SelectSeq(cs, LAMBDA e : e.req.kind \in {"languages", "readme"})
Position(names, k) == CHOOSE i \in 1..Min(Len(names), 20) : names[i] = k

\* the invocation missed the cache and returned
Assembled == pc = "done" /\ calls # <<>>
\* the invocation was served from the cache
Served == pc = "done" /\ calls = <<>>

\* the enrichment requests the claim C9 lists for a list of names: for each index
\* below 20 the languages, followed by the readme when the index is below 6.
\* ExpectedCount: how many they are; ExpectedAt: the j-th of them.
ExpectedCount(names) == Min(Len(names), 20) + Min(Len(names), 6)

ExpectedAt(u, names, j) ==
    LET r == Min(Len(names), 6)
    IN  IF j <= 2 * r
        THEN IF j % 2 = 1 THEN LanguagesReq(u, names[(j + 1) \div 2])
             ELSE ReadmeReq(u, names[j \div 2])
        ELSE LanguagesReq(u, names[j - r])

\* cs is the first Len(cs) of the expected enrichment requests
AsExpected(cs, u, names) ==
    /\ Len(cs) <= ExpectedCount(names)
    /\ \A j \in 1..Len(cs) : cs[j].req = ExpectedAt(u, names, j)

-----------------------------------------------------------------------------
(* C1: a second fetchUserData(U) within 30 minutes of a successful one         *)
(* dispatches nothing and returns the identical snapshot.                      *)

SecondCall ==
    /\ pc # "idle"
    /\ prev.result.status = "ok"
    /\ username = prev.username
    /\ ~prev.cleared

\* C1 as stated: whenever fetchUserData(U) is called again less than 30 minutes
\* after a successful fetchUserData(U) returned, it dispatches no request and
\* returns a snapshot equal in every field to the first one.
C1_AsStated ==
    (SecondCall /\ startedAt - prev.at < CACHE_DURATION)
        => (Served /\ result.data = prev.result.data)

\* C1, amended: if a fetchUserData(U) call missed the cache, returned and its
\* cache write succeeded, then the next fetchUserData call, if it is for U again
\* and starts less than 30 minutes after that write with the stored record
\* untouched in between (no clearCache), makes no request at all and returns the
\* stored record: username, userInfo and repos (with the enrichment fields)
\* equal to the first call's, and lastFetch the time of the write, which is not
\* later than the lastFetch the first call returned.
C1_SecondCallServed ==
    (/\ SecondCall
     /\ prev.calls # <<>>
     /\ prev.wrote.done
     /\ startedAt - prev.wrote.at < CACHE_DURATION)
        => /\ Served
           /\ result.data.has = AllFields
           /\ result.data.username = prev.result.data.username
           /\ result.data.userInfo = prev.result.data.userInfo
           /\ result.data.repos = prev.result.data.repos
           /\ result.data.lastFetch = prev.wrote.at
           /\ prev.wrote.at <= prev.result.data.lastFetch

\* a second call served from the record the first one wrote, whose lastFetch is
\* earlier than the one the first call returned
C1_Witness ==
    /\ SecondCall
    /\ prev.calls # <<>>
    /\ prev.wrote.done
    /\ Served
    /\ Len_(result.data.repos) > 0
    /\ result.data.lastFetch < prev.result.data.lastFetch

-----------------------------------------------------------------------------
(* C2: getCachedData returns the record only for the same username and an age  *)
(* below the TTL.                                                              *)

Readable(text, mode) == mode # "disabled" /\ text.kind = "object"

\* C2 as stated: a call served from the cache was served a record of that
\* username whose age was strictly less than the TTL.
C2_AsStated ==
    Served => /\ result.data.username = username
              /\ startedAt - result.data.lastFetch < CACHE_DURATION

\* C2, amended: getCachedData(username) returns the stored record only if the
\* stored username equals the requested one and (now - lastFetch) is not
\* greater than the TTL; a record with a numeric lastFetch is returned at every
\* age up to and including the TTL itself, and in every other case (another
\* username, a greater age, no record, unreadable storage) the result is absent.
\* (An age that is no number, that of a record without lastFetch, is not greater
\* than the TTL: what becomes of such a record is the subject of C4.)
C2_FreshUntilTTL ==
    /\ \A u \in Users :
        LET d == GetCachedData(u, storage, storageMode, now)
        IN  /\ d # NoData =>
                /\ Readable(storage, storageMode)
                /\ d = Parse(storage)
                /\ d.username = u
                /\ (IsNaN(d) \/ now - d.lastFetch <= CACHE_DURATION)
            /\ (/\ Readable(storage, storageMode)
                /\ "lastFetch" \in Parse(storage).has
                /\ Parse(storage).username = u
                /\ now - Parse(storage).lastFetch <= CACHE_DURATION)
                    => d = Parse(storage)
    /\ Served =>
        /\ result.data.username = username
        /\ (IsNaN(result.data) \/ startedAt - result.data.lastFetch <= CACHE_DURATION)
    /\ (pc \in {"await", "sleepPage", "sleepEnrich", "failed"}) =>
        ~(/\ Readable(storage, storageMode)
          /\ Parse(storage).username = username
          /\ startedAt - Parse(storage).lastFetch <= CACHE_DURATION)

\* a call served a record whose age is exactly the TTL
C2_Witness ==
    /\ Served
    /\ startedAt - result.data.lastFetch = CACHE_DURATION

-----------------------------------------------------------------------------
(* C3: no failure of the storage layer reaches the caller of a cache operation *)

\* C3 as stated: clearCache, like getCachedData and setCachedData, never throws.
C3_AsStated == ~clearThrew

-----------------------------------------------------------------------------
(* C4: a corrupted or foreign-shaped record is treated as absent               *)

\* C4 as stated: fetchUserData never returns a stored record that lacks one of
\* username, repos, userInfo and a numeric lastFetch.
C4_AsStated == Served => result.data.has = AllFields

-----------------------------------------------------------------------------
(* C5: the pre-check refuses exactly when the quota is used up and the reset   *)
(* time is still ahead                                                         *)

-----------------------------------------------------------------------------
(* C6: the mapping of response statuses                                        *)

-----------------------------------------------------------------------------
(* C7: fetchRepos issues floor(N/100)+1 page requests                          *)

\* fetchRepos has returned (every page request succeeded)
ReposFetched ==
    \/ EnrichCalls(calls) # <<>>
    \/ pc = "failed" /\ result.error = NoReposError

-----------------------------------------------------------------------------
(* C8: a returned UserData has a non-empty repos list                          *)

\* C8 as stated: every UserData fetchUserData returns, assembled or served from
\* the cache, has a non-empty repos list.
C8_AsStated ==
    pc = "done" => ("repos" \in result.data.has /\ Len_(result.data.repos) > 0)

-----------------------------------------------------------------------------
(* C9: which repositories are enriched, and in which order                     *)

\* C9 as stated: the language and readme requests issued are exactly those of
\* indices below min(N,20) and min(N,6), in list order.
C9_AsStated ==
    Assembled =>
        /\ AsExpected(Dispatched(EnrichCalls(calls)), username, repos.names)
        /\ Len(Dispatched(EnrichCalls(calls))) = ExpectedCount(repos.names)

\* C9, amended: fetchLanguages is called for exactly the repositories at indices
\* 0..min(N,20)-1 and fetchReadme for exactly those at 0..min(N,6)-1, in list
\* order (languages of i, then the readme of i if i < 6, before anything for
\* i+1), and each call dispatches its request unless the rate-limit pre-check
\* refuses it; repositories at index >= 20 get no languageData and those at
\* index >= 6 no readmeExcerpt. (The repositories that carry languageData are
\* those at the first Len(repos.languageData) positions, see LanguageDataOf.)
C9_EnrichmentOrder ==
    /\ AsExpected(EnrichCalls(calls), username, repos.names)
    /\ Len(repos.languageData) <= 20
    /\ Len(repos.readmeExcerpt) <= 6
    /\ Assembled =>
        /\ Len(EnrichCalls(calls)) = ExpectedCount(repos.names)
        /\ result.data.repos = repos
        /\ Len(repos.languageData) = Min(Len_(repos), 20)
        /\ Len(repos.readmeExcerpt) = Min(Len_(repos), 6)
        /\ \A i \in 1..Len(repos.languageData) : LanguageDataOf(repos, i) # Undef
        /\ \A i \in 1..Len(repos.readmeExcerpt) : ReadmeExcerptOf(repos, i) # Undef

\* more than 20 repositories, and an enrichment call the pre-check refused
C9_Witness ==
    /\ Assembled
    /\ Len_(repos) > 20
    /\ \E j \in 1..Len(calls) :
        /\ calls[j].req.kind = "languages"
        /\ ~calls[j].sent

-----------------------------------------------------------------------------
(* C10: enrichment failures never abort the fetch                              *)

\* C10: once a language or readme call has been made the invocation does not
\* fail; a failed or refused language request leaves the empty mapping, a failed
\* or refused readme request leaves null (not the empty string), and the
\* invocation goes on to the remaining repositories and returns the snapshot.
C10_EnrichmentRecovers ==
    /\ pc = "failed" => EnrichCalls(calls) = <<>>
    /\ \A j \in 1..Len(calls) :
        ~calls[j].sent =>
            /\ calls[j].req.kind = "languages" =>
                LanguageDataOf(repos, Position(repos.names, calls[j].req.repo)) = EmptyMap
            /\ calls[j].req.kind = "readme" =>
                ReadmeExcerptOf(repos, Position(repos.names, calls[j].req.repo)) = NullValue
    /\ (lastResponse.kind = "languages" /\ lastResponse.outcome.kind # "ok") =>
        LanguageDataOf(repos, lastResponse.idx) = EmptyMap
    /\ (lastResponse.kind = "readme" /\ lastResponse.outcome.kind # "ok") =>
        ReadmeExcerptOf(repos, lastResponse.idx) = NullValue
    /\ Assembled =>
        /\ result.status = "ok"
        /\ result.data.repos = repos
        /\ Len(repos.languageData) = Min(Len_(repos), 20)
        /\ Len(repos.readmeExcerpt) = Min(Len_(repos), 6)

\* a snapshot returned after a readme request failed and later ones succeeded
C10_Witness ==
    /\ Assembled
    /\ \E i \in 1..Len(repos.readmeExcerpt) :
        /\ repos.readmeExcerpt[i] = NullValue
        /\ repos.languageData[i] # EmptyMap
        /\ \E k \in (i + 1)..Len(repos.readmeExcerpt) :
            repos.readmeExcerpt[k] \notin {NullValue, EmptyString}

-----------------------------------------------------------------------------
(* C11: a request that hits the rate limit is fatal to the fetch, not retried  *)

\* C11 as stated: a fetchUserData call in which a request was refused by the
\* pre-check or answered 403 fails with the rate-limit error: no such call
\* returns a snapshot.
C11_AsStated ==
    /\ Assembled => \A j \in 1..Len(calls) : calls[j].sent
    /\ lastResponse.status = 403 =>
        (pc = "failed" /\ result.error.kind = "Rate limit exceeded")

\* C11, amended: when the request of fetchUser or of a page of fetchRepos hits
\* the rate limit (refused by the pre-check, or answered 403), the fetchUserData
\* call fails with the rate-limit-exceeded error and makes no further request;
\* when a language or readme request hits it, the error is swallowed (empty
\* mapping, null excerpt) and the call goes on; in neither case is the request
\* made again.
C11_RateLimitFatal ==
    /\ (lastResponse.status = 403 /\ lastResponse.kind \in {"user", "repos"}) =>
        /\ pc = "failed"
        /\ result = Thrown([kind |-> "Rate limit exceeded", status |-> 403])
        /\ Last(calls).req.kind = lastResponse.kind
    /\ (calls # <<>> /\ ~Last(calls).sent /\ Last(calls).req.kind \in {"user", "repos"}) =>
        /\ pc = "failed"
        /\ result = Thrown(RefusedError)
    /\ (lastResponse.status = 403 /\ lastResponse.kind \in {"languages", "readme"}) =>
        /\ pc # "failed"
        /\ lastResponse.kind = "languages" => LanguageDataOf(repos, lastResponse.idx) = EmptyMap
        /\ lastResponse.kind = "readme" => ReadmeExcerptOf(repos, lastResponse.idx) = NullValue
    /\ \A j \in 1..Len(calls) :
        (~calls[j].sent /\ calls[j].req.kind \in {"languages", "readme"}) => pc # "failed"
    /\ \A j \in 1..(Len(calls) - 1) : calls[j].req # calls[j + 1].req

\* the second page request answered 403: the call has failed
C11_Witness ==
    /\ pc = "failed"
    /\ lastResponse.status = 403
    /\ lastResponse.kind = "repos"
    /\ Len(PageCalls(calls)) = 2

-----------------------------------------------------------------------------
(* C12: at most one fetchUserData invocation is in flight                      *)

\* the handleGenerate invocations that await fetchUserData
InFlight == {i \in 1..Len(generates) : generates[i].stage = "fetch"}

\* C12: whatever generate triggers arrive (clicks on the button, Enter in the
\* username field), at most one fetchUserData invocation is in flight at any
\* time.
C12_OneInFlight == Cardinality(InFlight) <= 1

-----------------------------------------------------------------------------
(* C13: getFilteredRepos filters forks and sorts; filterStarred does nothing   *)

\* the repositories getFilteredRepos must return, in the order of the snapshot
Kept(ud, st) ==
    {i \in 1..Len(ud.repos) : ~(st.filterNoForks /\ ud.repos[i].fork)}

Ordered(out, sortBy) ==
    \A i, j \in 1..Len(out) :
        i < j =>
            CASE sortBy = "stars" -> out[i].stargazers_count >= out[j].stargazers_count
              [] sortBy = "updated" -> out[i].updated_at >= out[j].updated_at
              [] sortBy = "name" -> ~NameLess(out[j].name, out[i].name)
              [] OTHER -> TRUE

\* C13: getFilteredRepos returns exactly the repositories of the snapshot,
\* without the forks when filterNoForks is set, by stars descending, by updated
\* time descending or by name ascending as sortBy says; flipping filterStarred
\* does not change the result.
C13_FilteredSorted ==
    userData.kind = "data" =>
        LET out == GetFilteredRepos(userData, settings)
        IN  /\ Len(out) = Cardinality(Kept(userData, settings))
            /\ \A i \in Kept(userData, settings) :
                   \E k \in 1..Len(out) : out[k] = userData.repos[i]
            /\ Ordered(out, settings.sortBy)
            /\ GetFilteredRepos(userData, [settings EXCEPT !.filterStarred = ~@]) = out

Names(cards) == [i \in 1..Len(cards) |-> cards[i].name]

\* the nine repositories rendered by name without the forks, filterStarred set
C13_Witness ==
    /\ rendered.page.kind = "page"
    /\ userData = Snapshot(MixedUser, MixedRepos)
    /\ settings.sortBy = "name"
    /\ settings.filterNoForks
    /\ settings.filterStarred
    /\ Names(rendered.page.featured) =
        << <<"A", "l", "p", "h", "a">>, <<"a", "p", "i">>, <<"b", "e", "t", "a">>,
           <<"b", "l", "o", "g">>, <<"d", "o", "t", "f", "i", "l", "e", "s">>,
           <<"g", "i", "t", "f", "o", "l", "i", "o">> >>
    /\ Names(rendered.page.rest) = << <<"z", "e", "t", "a">> >>

-----------------------------------------------------------------------------
(* C14: the featured repositories                                              *)

\* the names of featuredRepos that name a repository of the list, in their order
Resolved(names, rs) ==
    SelectSeq(names, LAMBDA nm : \E i \in 1..Len(rs) : rs[i].name = nm)

\* C14: with featuredRepos non-empty, getFeaturedRepos returns the repositories
\* of the filtered and sorted list that featuredRepos names, in the order of
\* featuredRepos, without the names that name none, and at most 6 of them; with
\* featuredRepos empty, the first 6 of the filtered and sorted list.
C14_Featured ==
    userData.kind = "data" =>
        LET rs == GetFilteredRepos(userData, settings)
            out == GetFeaturedRepos(userData, settings)
            resolved == Resolved(settings.featuredRepos, rs)
        IN  IF settings.featuredRepos # <<>>
            THEN /\ Len(out) = Min(6, Len(resolved))
                 /\ \A i \in 1..Len(out) :
                        /\ out[i].name = resolved[i]
                        /\ \E k \in 1..Len(rs) : rs[k] = out[i]
            ELSE out = SubSeq(rs, 1, Min(6, Len(rs)))

\* nine names chosen, two of which name no repository of the list (one no
\* repository at all, one a fork that is filtered): the first six of the seven
\* others are featured, in the order they were chosen and not by stars
C14_Witness ==
    /\ rendered.page.kind = "page"
    /\ userData = Snapshot(MixedUser, MixedRepos)
    /\ Len(settings.featuredRepos) = 9
    /\ settings.sortBy = "stars"
    /\ settings.filterNoForks
    /\ Len(Resolved(settings.featuredRepos, GetFilteredRepos(userData, settings))) = 7
    /\ Names(rendered.page.featured) =
        << <<"z", "e", "t", "a">>, <<"b", "l", "o", "g">>, <<"a", "p", "i">>,
           <<"g", "i", "t", "f", "o", "l", "i", "o">>,
           <<"d", "o", "t", "f", "i", "l", "e", "s">>, <<"A", "l", "p", "h", "a">> >>

-----------------------------------------------------------------------------
(* C15: the Featured and the All Projects sections of the page                 *)

\* C15: with featuredRepos empty and a filtered list of n > 6 repositories, the
\* page has the first 6 of the filtered and sorted list in its Featured section
\* and the other n - 6 in its All Projects section, both in the order of the
\* list.
C15_Sections ==
    (rendered.page.kind = "page" /\ settings.featuredRepos = <<>>) =>
        LET rs == GetFilteredRepos(userData, settings)
        IN  Len(rs) > 6 =>
                /\ Names(rendered.page.featured) = Names(SubSeq(rs, 1, 6))
                /\ Names(rendered.page.rest) = Names(SubSeq(rs, 7, Len(rs)))
                /\ Len(rendered.page.rest) = Len(rs) - 6

Stars(ud, name) == ud.repos[Find(ud.repos, name)].stargazers_count

\* the ManyCount repositories by stars: the six with the most stars are
\* featured, from the most stars down, the others follow in All Projects
C15_Witness ==
    /\ rendered.page.kind = "page"
    /\ userData = Snapshot(MixedUser, ManyRepos)
    /\ settings.sortBy = "stars"
    /\ settings.featuredRepos = <<>>
    /\ Len(rendered.page.featured) = 6
    /\ \A i \in 1..6 :
        Stars(userData, rendered.page.featured[i].name) = ManyCount + 1 - i
    /\ Len(rendered.page.rest) = ManyCount - 6
    /\ \A i \in 1..(ManyCount - 6) :
        Stars(userData, rendered.page.rest[i].name) = ManyCount - 5 - i

-----------------------------------------------------------------------------
(* C16: every text is escaped before it is interpolated                        *)

\* every interpolation of a page: those of render, of generateSocialLinks, of
\* the cards and of the rows
AllFrags(pg) ==
    {pg.frags[i] : i \in 1..Len(pg.frags)}
    \cup UNION {{pg.featured[k].frags[i] : i \in 1..Len(pg.featured[k].frags)} :
                    k \in 1..Len(pg.featured)}
    \cup UNION {{pg.rest[k].frags[i] : i \in 1..Len(pg.rest[k].frags)} :
                    k \in 1..Len(pg.rest)}

\* a text that went through escapeHtml holds none of & < > " '
IsEscaped(text) == \A i \in 1..Len(text) : text[i] \notin Special

\* C16: every fetched or user-supplied text that render, generateProjectCard
\* and generateSocialLinks put into the document (names, descriptions, language
\* names, topics, urls, bio, location, the linkedin, twitter and email
\* settings) went through escapeHtml: in no template does a raw value reach
\* the output.
C16_AllEscaped ==
    rendered.page.kind = "page" =>
        \A f \in AllFrags(rendered.page) : IsEscaped(f.text)

-----------------------------------------------------------------------------
(* C19: the gradient of a card of the creative template                        *)

\* C19: in the creative template the gradient of a card is a palette index in
\* 0..5, also for a name whose hash is the least 32-bit value, and a name has
\* the same index in every render, whatever the settings, the other
\* repositories and the renders before.
C19_Gradient ==
    /\ \A g \in Gradients(rendered.page) : g[2] \in 0..5
    /\ \A g, h \in Gradients(rendered.page) \cup rendered.earlier :
        g[1] = h[1] => g[2] = h[2]

OddName == <<"G", "y", "d", "Z", "G", "_">>

\* a creative page with a card for a name whose hash is -2^31, after a creative
\* page that had a card for it
C19_Witness ==
    /\ rendered.page.kind = "page"
    /\ rendered.page.template = "creative"
    /\ HashCode(OddName) = [hi |-> HalfWord \div 2, lo |-> 0]
    /\ <<OddName, 2>> \in Gradients(rendered.page)
    /\ <<OddName, 2>> \in rendered.earlier
    /\ settings.sortBy = "name"

-----------------------------------------------------------------------------
(* C20: the top languages of a repository and their percentages                *)

\* the byte count of a language in the entries of a mapping
BytesOf(entries, name) ==
    entries[CHOOSE i \in 1..Len(entries) : entries[i][1] = name][2]

RECURSIVE SumPercent(_)
SumPercent(langs) ==
    IF langs = <<>> THEN 0 ELSE langs[1].percent + SumPercent(Tail(langs))

RECURSIVE SumBytes(_, _)
SumBytes(entries, langs) ==
    IF langs = <<>> THEN 0
    ELSE BytesOf(entries, langs[1].name) + SumBytes(entries, Tail(langs))

Distance(a, b) == IF a < b THEN b - a ELSE a - b

\* C20 for one mapping and what getTopLanguages returned for it
TopLanguagesRight(entries, langs) ==
    LET total == TotalBytes(entries)
    IN  /\ Len(langs) = Min(3, Len(entries))
        /\ \A i \in 1..Len(langs) : \E k \in 1..Len(entries) : entries[k][1] = langs[i].name
        /\ \A i, j \in 1..Len(langs) : i # j => langs[i].name # langs[j].name
        /\ \A i \in 1..Len(langs) : \A k \in 1..Len(entries) :
               (\A j \in 1..Len(langs) : langs[j].name # entries[k][1]) =>
                   entries[k][2] <= BytesOf(entries, langs[i].name)
        /\ \A i \in 1..(Len(langs) - 1) :
               BytesOf(entries, langs[i].name) >= BytesOf(entries, langs[i + 1].name)
        \* percent = round(100 * bytes / total), halves rounded up
        /\ \A i \in 1..Len(langs) :
               /\ total > 0
               /\ 2 * total * langs[i].percent <= 200 * BytesOf(entries, langs[i].name) + total
               /\ 200 * BytesOf(entries, langs[i].name) + total < 2 * total * (langs[i].percent + 1)
        \* the sum of the percents is within 1.5 points of the true share
        /\ langs # <<>> =>
               2 * Distance(total * SumPercent(langs), 100 * SumBytes(entries, langs))
                   <= 3 * total
        /\ Len(entries) = 1 => (Len(langs) = 1 /\ langs[1].percent = 100)

\* the languageData of the repository a card is for
CardLanguageData(ud, name) == ud.repos[Find(ud.repos, name)].languageData

\* C20: for every mapping of languages to byte counts, getTopLanguages returns
\* at most 3 entries, those of the largest byte counts from the largest down,
\* each with percent = round(100 * bytes / total); the percents add up to the
\* true share of the entries within 1.5 points; one language alone has 100.
C20_TopLanguages ==
    rendered.page.kind = "page" =>
        \A k \in 1..Len(rendered.page.featured) :
            LET card == rendered.page.featured[k]
                data == CardLanguageData(userData, card.name)
            IN  data.has => TopLanguagesRight(data.entries, card.langs)

-----------------------------------------------------------------------------
(* C17: every preview handle is released exactly once                          *)

\* a handle still in use: the one of the preview frame, or one a compare frame
\* shows whose load or whose release timer is still under way
InUse(h) ==
    \/ h = currentPreviewUrl
    \/ \E t \in Templates : frames[t].src = h /\ (frames[t].loading \/ h \in timers)

\* C17: whatever the events (generate, settings change, template switch,
\* refresh, compare, back), no handle got from getPreviewDataUrl is released
\* twice, and none stays unreleased once a newer preview has replaced it or the
\* compare frames have been loaded again.
C17_ReleasedOnce ==
    \A h \in 1..Len(handles) :
        /\ handles[h] <= 1
        /\ handles[h] = 0 => InUse(h)

-----------------------------------------------------------------------------
(* C18: what loadSavedSettings leaves in the settings of the TemplateEngine   *)

\* the fields with a documented default, and the values each may have
DefaultedKeys == {"primaryColor", "accentColor", "filterNoForks", "sortBy"}
Colors == {"#6366f1", "#22d3ee", "#000000"}
ValidField(k, v) ==
    CASE k = "sortBy" -> v \in SortChoices
      [] k = "filterNoForks" -> v \in BOOLEAN
      [] OTHER -> v \in Colors

\* the persisted record has a valid value for the field
StoredValid(k) ==
    /\ settingsText.kind = "object"
    /\ k \in DOMAIN settingsText.data
    /\ ValidField(k, settingsText.data[k])

\* C18: once loadSavedSettings has run, every field that the persisted record
\* lacks or holds an invalid value for has its documented default in the
\* settings of the TemplateEngine; a record that cannot be parsed leaves every
\* default in place.
C18_Defaults ==
    booted = "loaded" =>
        /\ \A k \in DefaultedKeys : ~StoredValid(k) => settings[k] = DefaultSettings[k]
        /\ settingsText.kind = "garbage" => settings = DefaultSettings

(***************************************************************************)
(* C21: the excerpt is what the stated scan gives                          *)
(***************************************************************************)

\* the stated scan: the leading blank, heading, image and badge lines are
\* passed over
RECURSIVE FirstContent(_, _)
FirstContent(lines, i) ==
    IF i > Len(lines) THEN i
    ELSE IF Trim(lines[i]) = <<>> \/ SkippedLine(Trim(lines[i])) THEN FirstContent(lines, i + 1)
    ELSE i

\* ... and from the first other line on the consecutive non-blank lines are
\* joined by one space, up to the first blank line or until the text is
\* longer than ScanLimit
RECURSIVE Accumulated(_, _, _)
Accumulated(lines, i, text) ==
    IF i > Len(lines) \/ Trim(lines[i]) = <<>> THEN text
    ELSE LET longer == text \o (IF text # <<>> THEN <<" ">> ELSE <<>>) \o Trim(lines[i])
         IN  IF Len(longer) > ScanLimit THEN longer
             ELSE Accumulated(lines, i + 1, longer)

StatedExcerpt(lines) ==
    Truncate(StripMarkdown(Accumulated(lines, FirstContent(lines, 1), <<>>)))

\* C21: for every sequence of lines extractFirstParagraph returns what the
\* stated scan gives: leading blank, heading and image or badge lines skipped,
\* the consecutive non-blank lines from the first other line on joined by a
\* space up to the first blank line or past 300 characters, the markup
\* stripped, and the text cut to 250 characters and "..." when it is longer.
C21_StatedScan ==
    excerpt.done => excerpt.text = StatedExcerpt(markdown)

(***************************************************************************)
(* C22, C23, C24: the limiter state and the responses                      *)
(***************************************************************************)

\* a response has been received in this invocation (a fetch() that rejected,
\* status 0, is none)
Received == lastResponse.status \notin {-1, 0}

\* the last fetchWithRateLimit call was made after the last response
CalledSince ==
    /\ calls # <<>>
    /\ lastResponse.count = Len(Dispatched(calls)) - (IF Last(calls).sent THEN 1 ELSE 0)

\* C22: for every response fetchWithRateLimit receives, whatever its status, the
\* rate-limit state is updated from the response's headers before the status
\* is interpreted: after the call the state reflects these headers, also when
\* the call ended in an error, and the pre-check of the next call has seen them.
C22_UpdatedFirst ==
    Received =>
        /\ rateLimitRemaining = (IF lastResponse.remaining = NoHeader THEN lastResponse.rem0
                                 ELSE lastResponse.remaining)
        /\ rateLimitReset = (IF lastResponse.reset = NoHeader THEN lastResponse.rst0
                             ELSE lastResponse.reset * 1000)
        /\ CalledSince =>
            (lastCall.rem = rateLimitRemaining /\ lastCall.rst = rateLimitReset)

\* a fetchUserData call that a 403 ended has the headers of the 403 in the state
C22_Witness ==
    /\ pc = "failed"
    /\ lastResponse.status = 403
    /\ result = Thrown(Outcome(403))
    /\ lastResponse.remaining = 0
    /\ lastResponse.reset = ResetSeconds
    /\ lastResponse.rem0 = InitialQuota
    /\ lastResponse.rst0 = Null
    /\ rateLimitRemaining = 0
    /\ rateLimitReset = ResetSeconds * 1000

\* C23: updateRateLimit leaves the remaining quota as it was when the response
\* has no X-RateLimit-Remaining header and the reset time as it was when it has
\* no X-RateLimit-Reset header, each whatever the other header is; a header
\* that is there, a remaining value of 0 too, replaces the stored value.
C23_HeaderFrame ==
    Received =>
        /\ lastResponse.remaining = NoHeader => rateLimitRemaining = lastResponse.rem0
        /\ lastResponse.reset = NoHeader => rateLimitReset = lastResponse.rst0
        /\ lastResponse.remaining # NoHeader => rateLimitRemaining = lastResponse.remaining
        /\ lastResponse.reset # NoHeader => rateLimitReset = lastResponse.reset * 1000

\* a remaining header of 0 has replaced the quota while the reset time, for
\* which the response had no header, is the one recorded before
C23_Witness ==
    /\ Received
    /\ lastResponse.remaining = 0
    /\ lastResponse.reset = NoHeader
    /\ lastResponse.rem0 = InitialQuota
    /\ lastResponse.rst0 = ResetSeconds * 1000
    /\ rateLimitRemaining = 0
    /\ rateLimitReset = ResetSeconds * 1000

\* the instants at which the decisions are compared
Instants ==
    {t \in {0, lastCall.at, now, now + 1, rateLimitReset - 1, rateLimitReset,
            rateLimitReset + 1, rateLimitReset + CACHE_DURATION} : t >= 0}

\* C24: with no response recorded in between, a pre-check that passes at a
\* time t passes at every later time, and one that refuses at t passes at
\* every time at or after the recorded reset instant.
C24_Monotonic ==
    /\ \A t1 \in Instants : \A t2 \in Instants :
        /\ (t1 <= t2 /\ ~Refuses(rateLimitRemaining, rateLimitReset, t1)) =>
                ~Refuses(rateLimitRemaining, rateLimitReset, t2)
        /\ (Refuses(rateLimitRemaining, rateLimitReset, t1) /\ t2 >= rateLimitReset) =>
                ~Refuses(rateLimitRemaining, rateLimitReset, t2)
    /\ (CalledSince /\ lastResponse.status = 0) => Last(calls).sent
    /\ (Len(calls) >= 2 /\ ~calls[Len(calls) - 1].sent /\ lastCall.at >= lastCall.rst) =>
            Last(calls).sent

\* a call was refused, the clock reached the reset instant with no response in
\* between, and the next call was dispatched
C24_Witness ==
    /\ Len(calls) >= 2
    /\ ~calls[Len(calls) - 1].sent
    /\ Last(calls).sent
    /\ lastCall.rem <= 0
    /\ Truthy(lastCall.rst)
    /\ lastCall.at >= lastCall.rst
    /\ pc = "await"

(***************************************************************************)
(* C25, C26: the order of the requests                                     *)
(***************************************************************************)

\* the last page request failed: the pre-check refused it, or its response
\* was not a success
PageFailed ==
    /\ calls # <<>>
    /\ Last(calls).req.kind = "repos"
    /\ \/ ~Last(calls).sent
       \/ /\ pc # "await"
          /\ lastResponse.kind = "repos"
          /\ lastResponse.outcome.kind # "ok"

\* the pages that have been answered
PagesAnswered ==
    Len(Dispatched(PageCalls(calls))) - (IF pending.kind = "repos" THEN 1 ELSE 0)

C25_WitnessFailure ==
    /\ PageFailed
    /\ Len(PageCalls(calls)) = 2
    /\ Len_(repos) = perPage

\* C26: within one fetchUserData invocation at most one request is outstanding
\* at any moment: the identity request, each page request and each languages
\* or readme request is dispatched only after the response to the previous
\* request, or its failure, has been handled.
C26_OneOutstanding ==
    LET outstanding == Len(Dispatched(calls)) - lastResponse.count
    IN  /\ outstanding \in {0, 1}
        /\ outstanding = 1 <=> pc = "await"
        /\ pc = "await" => (Last(calls).sent /\ pending = Last(calls).req)
        /\ pc # "await" => pending = NoReq

\* the readme request of the second repository is outstanding, alone, after
\* five requests were answered
C26_Witness ==
    /\ pc = "await"
    /\ pending.kind = "readme"
    /\ idx = 2
    /\ Len(Dispatched(calls)) = 6
    /\ lastResponse.count = 5

(***************************************************************************)
(* C27: a failing invocation leaves the cache alone                        *)
(***************************************************************************)

\* C27: a fetchUserData call that fails (user not found, the rate limit or a
\* remote error on the identity or a page request, an empty repository list)
\* leaves the cache entry exactly as it was before the call; the cache is
\* written only once, after the enrichment of all selected repositories.
C27_FailureLeavesCache ==
    /\ pc = "failed" => (storage = atCall.storage /\ wrote = NoWrite)
    /\ pc \in {"await", "sleepPage", "sleepEnrich"} =>
            (storage = atCall.storage /\ wrote = NoWrite)
    /\ (pc # "idle" /\ storage # atCall.storage) =>
        /\ pc = "done"
        /\ calls # <<>>
        /\ wrote = [done |-> TRUE, user |-> username, at |-> Parse(storage).lastFetch]
        /\ Len(repos.languageData) = Min(Len_(repos), TopRepos)
        /\ Len(repos.readmeExcerpt) = Min(Len_(repos), ReadmeRepos)
        /\ Parse(storage).repos = repos

\* a page request answered by 403 ended the call, and the cache still holds the
\* record it held
C27_Witness ==
    /\ pc = "failed"
    /\ Last(calls).req.kind = "repos"
    /\ lastResponse.status = 403
    /\ atCall.storage = OthersRecord
    /\ storage = OthersRecord

(***************************************************************************)
(* C28: every repository of the filtered list is in exactly one section    *)
(***************************************************************************)

\* how often a name occurs in a sequence of names
Occurrences(names, name) == Cardinality({i \in 1..Len(names) : names[i] = name})

\* C28: for every settings value, a user-chosen non-empty featuredRepos list
\* included, when the filtered list has more than 6 repositories each
\* repository of the filtered list is rendered in exactly one of the Featured
\* and All Projects sections: none is in both and none is left out of both.
C28_ExactlyOneSection ==
    rendered.page.kind = "page" =>
        LET rs == GetFilteredRepos(userData, settings)
        IN  Len(rs) > 6 =>
                \A i \in 1..Len(rs) :
                    Occurrences(Names(rendered.page.featured), rs[i].name)
                    + Occurrences(Names(rendered.page.rest), rs[i].name) = 1

(***************************************************************************)
(* C29: the requests of one invocation                                     *)
(***************************************************************************)

\* the requests the claim allows an invocation over n repositories
RequestBudget(n) == 1 + (n \div 100 + 1) + Min(n, 20) + Min(n, 6)

\* the invocation missed the cache and ran to its end: it returned, or it
\* threw because the list was empty
RanThrough ==
    \/ Assembled
    \/ pc = "failed" /\ result.error = NoReposError

\* C29: one fetchUserData invocation over a list of N repositories dispatches
\* at most 1 + (floor(N/100)+1) + min(N,20) + min(N,6) requests, and exactly
\* that many when it misses the cache and no request is refused by the
\* pre-check or aborts the fetch; a cache hit dispatches none and leaves the
\* rate-limit state unchanged.
C29_RequestBudget ==
    /\ Len(Dispatched(calls)) <= RequestBudget(remoteCount)
    /\ (RanThrough /\ \A j \in 1..Len(calls) : calls[j].sent) =>
            Len(Dispatched(calls)) = RequestBudget(remoteCount)
    /\ Served =>
        /\ calls = <<>>
        /\ lastResponse = NoResponse
        /\ rateLimitRemaining = atCall.rem
        /\ rateLimitReset = atCall.rst

\* a list of a full page took 29 requests, one of whose responses took the
\* quota to 0, and the next invocation was served from the cache
C29_Witness ==
    /\ Served
    /\ remoteCount = perPage
    /\ prev.result.status = "ok"
    /\ Len(Dispatched(prev.calls)) = 29
    /\ Len(prev.calls) = 29
    /\ rateLimitRemaining = 0
    /\ atCall.rem = 0

(***************************************************************************)
(* C30: the cache slot under overlapping invocations                       *)
(***************************************************************************)

\* d is a whole record, and everything in it was fetched for d.username
OfOneInvocation(d) ==
    /\ d.has = AllFields
    /\ d.userInfo = RemoteUser(d.username)
    /\ d.repos.names = RemotePage(d.username, remoteCount, 1)
    /\ Len(d.repos.languageData) = Len(d.repos.names)
    /\ Len(d.repos.readmeExcerpt) = Len(d.repos.names)
    /\ \A i \in 1..Len(d.repos.names) :
        /\ d.repos.languageData[i] \in {<<"map", d.repos.names[i]>>, EmptyMap}
        /\ d.repos.readmeExcerpt[i] \in {<<"str", d.repos.names[i]>>, NullValue}

\* C30: under any interleaving of fetchUserData invocations, for the same or
\* for different usernames, the cache slot holds nothing or one complete
\* record whose username is the one its repos and userInfo were fetched for,
\* never a mix of two invocations' data, and the record is that of the
\* invocation that finished, storing it, last.
C30_OneRecord ==
    /\ storage.kind \in {"none", "object"}
    /\ storage.kind = "none" <=> ~wrote.done
    /\ storage.kind = "object" =>
        /\ OfOneInvocation(Parse(storage))
        /\ Parse(storage).username = wrote.user
        /\ Parse(storage).lastFetch = wrote.at

\* the second invocation, for bob, has stored its record while the first, for
\* alice, which began before it, is still fetching
C30_Witness ==
    /\ Len(invocations) = 1
    /\ invocations[1].no = 1
    /\ invocations[1].username = "alice"
    /\ invocations[1].step = "enrich"
    /\ callsLeft = MaxStarts - 2
    /\ wrote.user = "bob"
    /\ Parse(storage).username = "bob"

====
